---- MODULE Spec2Model ----
(***************************************************************************)
(* IP fragment reassembly cache of netstack3 (core/src/ip/reassembly.rs),  *)
(* together with the timer dispatcher it schedules its timeouts on.        *)
(*                                                                         *)
(* Byte strings are kept as sequences of runs: a run [first, len] stands   *)
(* for the bytes first, first+1, ..., first+len-1 (mod 256), the pattern   *)
(* the repository's tests fill fragment bodies with.  Appending bytes is   *)
(* appending runs (merging a run into the one it continues), so two byte   *)
(* strings are equal exactly when their run sequences are.                 *)
(***************************************************************************)
EXTENDS Integers, Sequences, FiniteSets, TLC

VARIABLES
    cache,      \* [version -> [key -> Option<FragmentCacheData>]]   (IpLayerFragmentCache.cache)
    timers,     \* [timer id -> Option<deadline>]                    (the dispatcher's pending timers)
    now,        \* the dispatcher's clock, seconds
    panic,      \* "none", or the assertion / panic that aborted the program
    ret,        \* the last operation: its arguments, its return value, and what it saw on entry
    accepted,   \* history: [version -> [key -> the fragments placed into the key's current entry]]
    pmtu_cache,       \* [version -> [path -> Option<PathMtuCacheData>]]  (IpLayerPathMtuCache.cache)
    timer_scheduled,  \* [version -> BOOLEAN]                             (IpLayerPathMtuCache.timer_scheduled)
    pmtu_timers,      \* [version -> Option<deadline>]   (the dispatcher's pending PmtuTimerId timers)
    pmtu_ret,         \* the last path MTU operation: its arguments and its return value
    if_less_stored    \* history: [version -> [path -> the pmtu the path had after the last
                      \*           update_pmtu_if_less call that left it an entry, if any]]

pmtu_vars == <<pmtu_cache, timer_scheduled, pmtu_timers, pmtu_ret, if_less_stored>>
vars == <<cache, timers, now, panic, ret, accepted, pmtu_cache, timer_scheduled, pmtu_timers, pmtu_ret,
          if_less_stored>>

---------------------------------------------------------------------------
(* Program constants *)

REASSEMBLY_TIMEOUT_SECONDS == 60
FRAGMENT_BLOCK_SIZE == 8
MAX_FRAGMENT_BLOCKS == 8191
U16_MAX == 65535
IPV4_HEADER_LEN == 20
IPV6_HEADER_LEN == 40

(* Bounds of the model *)

MaxTime == 90
MaxPmtuTime == 10800

---------------------------------------------------------------------------
(* Option<T> *)

None == [tag |-> "None"]
Some(x) == [tag |-> "Some", val |-> x]
IsSome(o) == o.tag = "Some"
IsNone(o) == o.tag = "None"

---------------------------------------------------------------------------
(* Inputs: IP versions, addresses, fragment ids, packets *)

Versions == {"v4", "v6"}

RemoteIp(v) ==
    IF v = "v4" THEN <<192, 0, 2, 2>>
    ELSE <<32, 1, 13, 184, 0, 0, 0, 0, 0, 0, 0, 0, 0, 0, 0, 2>>
LocalIp(v) ==
    IF v = "v4" THEN <<192, 0, 2, 1>>
    ELSE <<32, 1, 13, 184, 0, 0, 0, 0, 0, 0, 0, 0, 0, 0, 0, 1>>

FragIds == {5, 10}

\* FragmentCacheKey::new(src_ip, dst_ip, fragment_id)
FragmentCacheKey(src_ip, dst_ip, id) == <<src_ip, dst_ip, id>>

Keys(v) == { FragmentCacheKey(RemoteIp(v), LocalIp(v), id) : id \in FragIds }

\* FragmentCacheKeyEither::from(key) wrapped in
\* IpLayerTimerId::new_reassembly_timeout_timer_id
ReassemblyTimerId(v, key) == <<"reassembly", v, key>>
TimerIds == UNION { { ReassemblyTimerId(v, k) : k \in Keys(v) } : v \in Versions }

\* A body of len bytes as the tests generate it: consecutive byte values
\* starting at body_offset + fragment_offset * FRAGMENT_BLOCK_SIZE.
Run(first, len) == [first |-> first % 256, len |-> len]
TestBody(id, offset, len) ==
    IF len = 0 THEN <<>> ELSE <<Run(id + offset * FRAGMENT_BLOCK_SIZE, len)>>

RECURSIVE BytesLen(_)
BytesLen(bs) == IF bs = <<>> THEN 0 ELSE Head(bs).len + BytesLen(Tail(bs))

\* bytes ++ more, in the canonical run form
RECURSIVE Extend(_, _)
Extend(bs, more) ==
    IF more = <<>> THEN bs
    ELSE IF bs = <<>> THEN Extend(<<Head(more)>>, Tail(more))
    ELSE LET l == bs[Len(bs)]
             r == Head(more)
         IN IF (l.first + l.len) % 256 = r.first
            THEN Extend([bs EXCEPT ![Len(bs)] = [first |-> l.first, len |-> l.len + r.len]],
                        Tail(more))
            ELSE Extend(Append(bs, r), Tail(more))

\* A received packet, as the packet parser hands it to the cache.
Packet(v, id, has_frag, offset, m_flag, len) ==
    [version |-> v, src_ip |-> RemoteIp(v), dst_ip |-> LocalIp(v),
     fragment_data |-> IF has_frag THEN Some(<<id, offset, m_flag>>) ELSE None,
     id |-> id,
     body |-> TestBody(id, offset, len)]

\* The fragments offered to the cache: one IPv4 datagram (id 5) in
\* every shape: each offset and body length, with and without the
\* more-fragments flag, fragments at the far end of the offset space (ending
\* at block 8191 and at block 8192), and the largest first fragment an IPv4
\* packet can carry (65512 bytes, blocks 0 to 8188).
FragOffsets == {0, 1, 2, 3}
BodyLens == {0, 7, 8, 16}
FarOffsets == {8189}
FarBodyLens == {24, 32}
BigBodyLens == {65512}

Packets ==
    { Packet("v4", 5, TRUE, o, m, l) : o \in FragOffsets, m \in BOOLEAN, l \in BodyLens }
    \cup { Packet("v4", 5, TRUE, o, m, l) : o \in FarOffsets, m \in BOOLEAN, l \in FarBodyLens }
    \cup { Packet("v4", 5, TRUE, 0, TRUE, l) : l \in BigBodyLens }
    \cup { Packet("v4", 5, FALSE, 0, FALSE, 7) }

---------------------------------------------------------------------------
(* Headers.  get_header serialises the packet's builder over an empty     *)
(* body; the builders live in wire/ipv4.rs and wire/ipv6 (RFC 791 and RFC *)
(* 8200 layouts).                                                          *)

Hi(x) == (x \div 256) % 256
Lo(x) == x % 256

\* RFC 1071 checksum of a sequence of bytes of even length
RECURSIVE OnesSum(_, _)
OnesSum(bytes, i) ==
    IF i > Len(bytes) THEN 0
    ELSE bytes[i] * 256 + bytes[i + 1] + OnesSum(bytes, i + 2)

RECURSIVE Fold16(_)
Fold16(x) == IF x < 65536 THEN x ELSE Fold16((x % 65536) + (x \div 65536))

InternetChecksum(bytes) == 65535 - Fold16(OnesSum(bytes, 1))

WithChecksum(hdr) ==
    LET c == InternetChecksum(SubSeq(hdr, 1, 10) \o SubSeq(hdr, 13, Len(hdr)))
    IN [hdr EXCEPT ![11] = Hi(c), ![12] = Lo(c)]

Ipv4HeaderBytes(src_ip, dst_ip, id, offset, m_flag, total_len) ==
    WithChecksum(
        <<69, 0, Hi(total_len), Lo(total_len),
          Hi(id), Lo(id), (IF m_flag THEN 32 ELSE 0) + Hi(offset), Lo(offset),
          10, 6, 0, 0>> \o src_ip \o dst_ip)

Ipv6HeaderBytes(src_ip, dst_ip, payload_len) ==
    <<96, 0, 0, 0, Hi(payload_len), Lo(payload_len), 6, 10>> \o src_ip \o dst_ip

\* get_header::<B, I>(&packet)
GetHeader(pkt) ==
    LET fd == IF IsSome(pkt.fragment_data) THEN pkt.fragment_data.val ELSE <<pkt.id, 0, FALSE>>
    IN IF pkt.version = "v4"
       THEN Ipv4HeaderBytes(pkt.src_ip, pkt.dst_ip, fd[1], fd[2], fd[3], IPV4_HEADER_LEN)
       ELSE Ipv6HeaderBytes(pkt.src_ip, pkt.dst_ip, 0)

---------------------------------------------------------------------------
(* FragmentCacheData *)

\* FragmentCacheData::new()
NewFragmentCacheData ==
    [missing_blocks |-> {<<0, U16_MAX>>},
     body_fragments |-> <<>>,
     header |-> None,
     total_size |-> 0]

\* PacketBodyFragment::new(offset, data): the heap key is the negated offset
PacketBodyFragment(offset, data) == <<(-1) * offset, data>>

\* Mutant: a queue in arrival order instead of a heap.
HeapPush_Fifo(heap, frag) == Append(heap, frag)

\* BinaryHeap<PacketBodyFragment>, kept as the sequence pop() would return:
\* greatest key first.  push() places the element after the ones whose key is
\* greater or equal.
RECURSIVE HeapPush(_, _)
HeapPush(heap, frag) ==
    IF heap = <<>> THEN <<frag>>
    ELSE IF Head(heap)[1] >= frag[1] THEN <<Head(heap)>> \o HeapPush(Tail(heap), frag)
    ELSE <<frag>> \o heap

HeapPeek(heap) == Head(heap)
HeapPop(heap) == Tail(heap)

\* Iteration order of BTreeSet<(u16, u16)>: ascending, lexicographic
TupleLess(a, b) == a[1] < b[1] \/ (a[1] = b[1] /\ a[2] < b[2])

RECURSIVE BTreeIter(_)
BTreeIter(S) ==
    IF S = {} THEN <<>>
    ELSE LET m == CHOOSE x \in S : \A y \in S : y = x \/ TupleLess(x, y)
         IN <<m>> \o BTreeIter(S \ {m})

\* find_gap's loop body, from the i-th gap on
RECURSIVE FindGapFrom(_, _, _)
FindGapFrom(gaps, i, fragment_blocks_range) ==
    IF i > Len(gaps) THEN None
    ELSE LET potential_gap == gaps[i]
         IN IF fragment_blocks_range[2] < potential_gap[1]
            THEN FindGapFrom(gaps, i + 1, fragment_blocks_range)
            ELSE IF fragment_blocks_range[1] > potential_gap[2]
            THEN FindGapFrom(gaps, i + 1, fragment_blocks_range)
            ELSE IF fragment_blocks_range[1] < potential_gap[1]
                    \/ fragment_blocks_range[2] > potential_gap[2]
            THEN None
            ELSE Some(potential_gap)

\* Mutant: the first gap the range touches is taken, contained or not.
FindGap_Touching(missing_blocks, fragment_blocks_range) ==
    LET touching == { g \in missing_blocks :
                        ~(fragment_blocks_range[2] < g[1] \/ fragment_blocks_range[1] > g[2]) }
    IN IF touching = {} THEN None ELSE Some(BTreeIter(touching)[1])

\* find_gap(&missing_blocks, fragment_blocks_range)
FindGap(missing_blocks, fragment_blocks_range) ==
    FindGapFrom(BTreeIter(missing_blocks), 1, fragment_blocks_range)

\* 1 + ((packet.body().len() - 1) / FRAGMENT_BLOCK_SIZE)
NumFragmentBlocks(body_len) == 1 + ((body_len - 1) \div FRAGMENT_BLOCK_SIZE)

\* u16::try_from(offset + num_fragment_blocks - 1), then the
\* MAX_FRAGMENT_BLOCKS check: Some(range) or None (InvalidFragment)
FragmentBlocksRange(offset, num_fragment_blocks) ==
    LET offset_end == offset + num_fragment_blocks - 1
    IN IF offset_end <= U16_MAX
       THEN IF offset_end <= MAX_FRAGMENT_BLOCKS THEN Some(<<offset, offset_end>>) ELSE None
       ELSE None

\* The gap before the fragment: inserted when the fragment starts after the
\* beginning of found_gap.
LeftGap(found_gap, fragment_blocks_range) ==
    IF found_gap[1] < fragment_blocks_range[1]
    THEN {<<found_gap[1], fragment_blocks_range[1] - 1>>}
    ELSE {}

\* Mutant: the gap after the fragment starts at the fragment's last block.
RightGap_OffByOne(found_gap, fragment_blocks_range, m_flag) ==
    IF found_gap[2] > fragment_blocks_range[2] /\ m_flag
    THEN {<<fragment_blocks_range[2], found_gap[2]>>}
    ELSE {}

\* The gap after the fragment: inserted when the fragment ends before the end
\* of found_gap and more fragments are expected.
RightGap(found_gap, fragment_blocks_range, m_flag) ==
    IF found_gap[2] > fragment_blocks_range[2] /\ m_flag
    THEN {<<fragment_blocks_range[2] + 1, found_gap[2]>>}
    ELSE {}

\* assert!(found_gap.1 == fragment_blocks_range.1 || !m_flag && found_gap.1 == std::u16::MAX)
\* in the branch that adds no gap after the fragment
GapAssertion(found_gap, fragment_blocks_range, m_flag) ==
    (found_gap[2] > fragment_blocks_range[2] /\ m_flag)
    \/ found_gap[2] = fragment_blocks_range[2]
    \/ (~m_flag /\ found_gap[2] = U16_MAX)

---------------------------------------------------------------------------
(* IpLayerFragmentCache<I>: the operations, as functions of the version's  *)
(* cache c, the dispatcher's timers t and its clock.                       *)

\* dispatcher.schedule_timeout(duration, id): replaces a pending timer of the same id
ScheduleTimeout(t, clock, duration, id) == [t EXCEPT ![id] = Some(clock + duration)]

\* Mutant: the timer stays pending.
CancelTimeout_Keep(t, id) == t

\* dispatcher.cancel_timeout(id): the timers left (the prior deadline is t[id])
CancelTimeout(t, id) == [t EXCEPT ![id] = None]

\* Mutant: the entry is created without its timeout being scheduled.
GetOrCreate_NoTimer(c, t, clock, v, key) ==
    IF IsSome(c[key])
    THEN [c |-> c, t |-> t]
    ELSE [c |-> [c EXCEPT ![key] = Some(NewFragmentCacheData)], t |-> t]

\* Mutant: every call schedules the timeout again.
GetOrCreate_Renew(c, t, clock, v, key) ==
    [c |-> IF IsSome(c[key]) THEN c ELSE [c EXCEPT ![key] = Some(NewFragmentCacheData)],
     t |-> [t EXCEPT ![ReassemblyTimerId(v, key)] = Some(clock + REASSEMBLY_TIMEOUT_SECONDS)]]

\* IpLayerFragmentCache::get_or_create(&key, dispatcher)
GetOrCreate(c, t, clock, v, key) ==
    IF IsSome(c[key])
    THEN [c |-> c, t |-> t]
    ELSE [c |-> [c EXCEPT ![key] = Some(NewFragmentCacheData)],
          t |-> ScheduleTimeout(t, clock, REASSEMBLY_TIMEOUT_SECONDS, ReassemblyTimerId(v, key))]

\* What one call leaves behind and returns.
Result(c, t, pnc, outcome, why, key, packet_len, packet) ==
    [c |-> c, t |-> t, panic |-> pnc, outcome |-> outcome, why |-> why,
     key |-> key, packet_len |-> packet_len, packet |-> packet]

\* Mutant: the header is taken from whichever fragment arrives first.
CaptureFragment_AnyHeader(data, pkt, offset) ==
    LET with_header ==
            IF IsNone(data.header)
            THEN [data EXCEPT !.total_size = @ + Len(GetHeader(pkt)),
                              !.header = Some(GetHeader(pkt))]
            ELSE data
    IN [with_header EXCEPT
            !.total_size = @ + BytesLen(pkt.body),
            !.body_fragments = HeapPush(@, PacketBodyFragment(offset, pkt.body))]

\* The header capture and body push of process_fragment, on the entry whose
\* gaps have been updated.
CaptureFragment(data, pkt, offset) ==
    LET with_header ==
            IF offset = 0
            THEN [data EXCEPT !.total_size = @ + Len(GetHeader(pkt)),
                              !.header = Some(GetHeader(pkt))]
            ELSE data
    IN [with_header EXCEPT
            !.total_size = @ + BytesLen(pkt.body),
            !.body_fragments = HeapPush(@, PacketBodyFragment(offset, pkt.body))]

\* Mutant: the reassembly timer is cancelled when the datagram is complete.
PlaceFragment_ReadyCancels(c, t, v, key, pkt, offset, m_flag) ==
    LET fragment_data == c[key].val
        num_fragment_blocks == NumFragmentBlocks(BytesLen(pkt.body))
        range == FragmentBlocksRange(offset, num_fragment_blocks)
    IN IF IsNone(range)
       THEN Result(c, t, "none", "InvalidFragment", "out_of_range", Some(key), 0, None)
       ELSE
       LET fragment_blocks_range == range.val
           found == FindGap(fragment_data.missing_blocks, fragment_blocks_range)
           id == ReassemblyTimerId(v, key)
       IN IF IsNone(found)
          THEN IF IsNone(t[id])
               THEN Result(c, t, "cancel_timeout", "Panic", "no_gap", Some(key), 0, None)
               ELSE Result([c EXCEPT ![key] = None], CancelTimeout(t, id), "none",
                           "InvalidFragment", "no_gap", Some(key), 0, None)
          ELSE
          LET found_gap == found.val
              gaps1 == (fragment_data.missing_blocks \ {found_gap})
                           \cup LeftGap(found_gap, fragment_blocks_range)
              gaps2 == gaps1 \cup RightGap(found_gap, fragment_blocks_range, m_flag)
              data2 == [fragment_data EXCEPT !.missing_blocks = gaps2]
          IN IF ~GapAssertion(found_gap, fragment_blocks_range, m_flag)
             THEN Result([c EXCEPT ![key] = Some(data2)], t, "gap_assertion", "Panic",
                         "placed", Some(key), 0, None)
             ELSE IF offset = 0 /\ IsSome(fragment_data.header)
             THEN Result([c EXCEPT ![key] = Some(data2)], t, "header_is_none", "Panic",
                         "placed", Some(key), 0, None)
             ELSE
             LET data3 == CaptureFragment(data2, pkt, offset)
             IN IF data3.missing_blocks = {}
                THEN Result([c EXCEPT ![key] = Some(data3)], CancelTimeout(t, id), "none", "Ready",
                            "placed", Some(key), data3.total_size, None)
                ELSE Result([c EXCEPT ![key] = Some(data3)], t, "none", "NeedMoreFragments",
                            "placed", Some(key), 0, None)

\* The part of process_fragment after get_or_create: c and t are the cache
\* and timers get_or_create left.
PlaceFragment(c, t, v, key, pkt, offset, m_flag) ==
    LET fragment_data == c[key].val
        num_fragment_blocks == NumFragmentBlocks(BytesLen(pkt.body))
        range == FragmentBlocksRange(offset, num_fragment_blocks)
    IN IF IsNone(range)
       THEN Result(c, t, "none", "InvalidFragment", "out_of_range", Some(key), 0, None)
       ELSE
       LET fragment_blocks_range == range.val
           found == FindGap(fragment_data.missing_blocks, fragment_blocks_range)
           id == ReassemblyTimerId(v, key)
       IN IF IsNone(found)
          THEN IF IsNone(t[id])
               THEN Result(c, t, "cancel_timeout", "Panic", "no_gap", Some(key), 0, None)
               ELSE Result([c EXCEPT ![key] = None], CancelTimeout(t, id), "none",
                           "InvalidFragment", "no_gap", Some(key), 0, None)
          ELSE
          LET found_gap == found.val
              gaps1 == (fragment_data.missing_blocks \ {found_gap})
                           \cup LeftGap(found_gap, fragment_blocks_range)
              gaps2 == gaps1 \cup RightGap(found_gap, fragment_blocks_range, m_flag)
              data2 == [fragment_data EXCEPT !.missing_blocks = gaps2]
          IN IF ~GapAssertion(found_gap, fragment_blocks_range, m_flag)
             THEN Result([c EXCEPT ![key] = Some(data2)], t, "gap_assertion", "Panic",
                         "placed", Some(key), 0, None)
             ELSE IF offset = 0 /\ IsSome(fragment_data.header)
             THEN Result([c EXCEPT ![key] = Some(data2)], t, "header_is_none", "Panic",
                         "placed", Some(key), 0, None)
             ELSE
             LET data3 == CaptureFragment(data2, pkt, offset)
             IN IF data3.missing_blocks = {}
                THEN Result([c EXCEPT ![key] = Some(data3)], t, "none", "Ready",
                            "placed", Some(key), data3.total_size, None)
                ELSE Result([c EXCEPT ![key] = Some(data3)], t, "none", "NeedMoreFragments",
                            "placed", Some(key), 0, None)

\* Mutant: a packet with offset 0 and no more fragments is taken for a fragment.
ProcessFragmentFn_NoBypass(c, t, clock, pkt) ==
    IF IsNone(pkt.fragment_data)
    THEN Result(c, t, "none", "NotNeeded", "no_fragment_data", None, 0, Some(pkt))
    ELSE
    LET id == pkt.fragment_data.val[1]
        offset == pkt.fragment_data.val[2]
        m_flag == pkt.fragment_data.val[3]
        key == FragmentCacheKey(pkt.src_ip, pkt.dst_ip, id)
    IN IF BytesLen(pkt.body) = 0
       THEN Result(c, t, "none", "NeedMoreFragments", "empty_body", None, 0, None)
       ELSE IF m_flag /\ BytesLen(pkt.body) % FRAGMENT_BLOCK_SIZE # 0
       THEN Result(c, t, "none", "InvalidFragment", "not_aligned", None, 0, None)
       ELSE LET g == GetOrCreate(c, t, clock, pkt.version, key)
            IN PlaceFragment(g.c, g.t, pkt.version, key, pkt, offset, m_flag)

\* Mutant: the empty body is noticed only after the entry has been looked up
\* or created.
ProcessFragmentFn_EmptyCreates(c, t, clock, pkt) ==
    IF IsNone(pkt.fragment_data)
    THEN Result(c, t, "none", "NotNeeded", "no_fragment_data", None, 0, Some(pkt))
    ELSE
    LET id == pkt.fragment_data.val[1]
        offset == pkt.fragment_data.val[2]
        m_flag == pkt.fragment_data.val[3]
        key == FragmentCacheKey(pkt.src_ip, pkt.dst_ip, id)
    IN IF offset = 0 /\ m_flag = FALSE
       THEN Result(c, t, "none", "NotNeeded", "not_fragmented", None, 0, Some(pkt))
       ELSE IF m_flag /\ BytesLen(pkt.body) % FRAGMENT_BLOCK_SIZE # 0
       THEN Result(c, t, "none", "InvalidFragment", "not_aligned", None, 0, None)
       ELSE LET g == GetOrCreate(c, t, clock, pkt.version, key)
            IN IF BytesLen(pkt.body) = 0
               THEN Result(g.c, g.t, "none", "NeedMoreFragments", "empty_body", None, 0, None)
               ELSE PlaceFragment(g.c, g.t, pkt.version, key, pkt, offset, m_flag)

\* IpLayerFragmentCache::process_fragment(dispatcher, packet)
ProcessFragmentFn(c, t, clock, pkt) ==
    IF IsNone(pkt.fragment_data)
    THEN Result(c, t, "none", "NotNeeded", "no_fragment_data", None, 0, Some(pkt))
    ELSE
    LET id == pkt.fragment_data.val[1]
        offset == pkt.fragment_data.val[2]
        m_flag == pkt.fragment_data.val[3]
        key == FragmentCacheKey(pkt.src_ip, pkt.dst_ip, id)
    IN IF offset = 0 /\ m_flag = FALSE
       THEN Result(c, t, "none", "NotNeeded", "not_fragmented", None, 0, Some(pkt))
       ELSE IF BytesLen(pkt.body) = 0
       THEN Result(c, t, "none", "NeedMoreFragments", "empty_body", None, 0, None)
       ELSE IF m_flag /\ BytesLen(pkt.body) % FRAGMENT_BLOCK_SIZE # 0
       THEN Result(c, t, "none", "InvalidFragment", "not_aligned", None, 0, None)
       ELSE LET g == GetOrCreate(c, t, clock, pkt.version, key)
            IN PlaceFragment(g.c, g.t, pkt.version, key, pkt, offset, m_flag)

\* Packet parser on a reassembled IPv4 buffer (wire/ipv4.rs): the first
\* header_len bytes are `head`, the rest `body`.  Some(packet), or None when
\* the header is malformed.
ParseIpv4(head, body) ==
    LET total_len == head[3] * 256 + head[4]
    IN IF Len(head) >= IPV4_HEADER_LEN
          /\ head[1] = 69
          /\ total_len = Len(head) + BytesLen(body)
          /\ WithChecksum(head) = head
       THEN Some([version |-> "v4",
                  src_ip |-> SubSeq(head, 13, 16),
                  dst_ip |-> SubSeq(head, 17, 20),
                  fragment_data |->
                      Some(<<head[5] * 256 + head[6],
                             (head[7] % 32) * 256 + head[8],
                             (head[7] \div 32) % 2 = 1>>),
                  id |-> head[5] * 256 + head[6],
                  body |-> body])
       ELSE None

\* The loop of reassemble_packet_helper: pop the body fragments and append
\* their bytes after the header.
RECURSIVE CopyBodyFragments(_, _)
CopyBodyFragments(bytes, body_fragments) ==
    IF body_fragments = <<>> THEN bytes
    ELSE CopyBodyFragments(Extend(bytes, HeapPeek(body_fragments)[2]), HeapPop(body_fragments))

\* reassemble_packet_helper::<B, BV, I>(buffer, header, body_fragments):
\* [panic, result], result being Ok(packet) or Err(error)
ReassemblePacketHelper(v, header, body_fragments) ==
    LET body == CopyBodyFragments(<<>>, body_fragments)
        byte_count == Len(header) + BytesLen(body)
    IN IF v = "v4"
       THEN IF byte_count > U16_MAX
            THEN [panic |-> "none", outcome |-> "PacketParsingError", packet |-> None]
            ELSE LET h1 == [header EXCEPT ![3] = Hi(byte_count), ![4] = Lo(byte_count),
                                          ![5] = 0, ![6] = 0, ![7] = 0, ![8] = 0]
                     h2 == WithChecksum(h1)
                     parsed == ParseIpv4(h2, body)
                 IN IF IsSome(parsed)
                    THEN [panic |-> "none", outcome |-> "Ok", packet |-> parsed]
                    ELSE [panic |-> "none", outcome |-> "PacketParsingError", packet |-> None]
       ELSE [panic |-> "unimplemented", outcome |-> "Panic", packet |-> None]

\* Mutant: an entry with fragments missing is dropped by the attempt.
ReassemblePacketFn_DropIncomplete(c, t, v, key) ==
    IF IsNone(c[key])
    THEN Result(c, t, "none", "InvalidKey", "no_entry", Some(key), 0, None)
    ELSE
    LET fragment_data == c[key].val
        id == ReassemblyTimerId(v, key)
    IN IF fragment_data.missing_blocks # {}
       THEN Result([c EXCEPT ![key] = None], CancelTimeout(t, id), "none",
                   "MissingFragments", "gaps", Some(key), 0, None)
       ELSE IF IsNone(fragment_data.header)
       THEN Result(c, t, "header_is_some", "Panic", "complete", Some(key), 0, None)
       ELSE IF IsNone(t[id])
       THEN Result(c, t, "cancel_timeout", "Panic", "complete", Some(key), 0, None)
       ELSE LET h == ReassemblePacketHelper(v, fragment_data.header.val,
                                            fragment_data.body_fragments)
            IN Result([c EXCEPT ![key] = None], CancelTimeout(t, id), h.panic, h.outcome,
                      "complete", Some(key), 0, h.packet)

\* Mutant: the entry is removed only when the packet has been reassembled.
ReassemblePacketFn_LeakOnError(c, t, v, key) ==
    IF IsNone(c[key])
    THEN Result(c, t, "none", "InvalidKey", "no_entry", Some(key), 0, None)
    ELSE
    LET fragment_data == c[key].val
        id == ReassemblyTimerId(v, key)
    IN IF fragment_data.missing_blocks # {}
       THEN Result(c, t, "none", "MissingFragments", "gaps", Some(key), 0, None)
       ELSE IF IsNone(fragment_data.header)
       THEN Result(c, t, "header_is_some", "Panic", "complete", Some(key), 0, None)
       ELSE IF IsNone(t[id])
       THEN Result(c, t, "cancel_timeout", "Panic", "complete", Some(key), 0, None)
       ELSE LET h == ReassemblePacketHelper(v, fragment_data.header.val,
                                            fragment_data.body_fragments)
            IN IF h.outcome = "Ok"
               THEN Result([c EXCEPT ![key] = None], CancelTimeout(t, id), h.panic, h.outcome,
                           "complete", Some(key), 0, h.packet)
               ELSE Result(c, t, h.panic, h.outcome, "complete", Some(key), 0, h.packet)

\* Mutant: reassembly removes the entry and leaves its timer pending.
ReassemblePacketFn_KeepTimer(c, t, v, key) ==
    IF IsNone(c[key])
    THEN Result(c, t, "none", "InvalidKey", "no_entry", Some(key), 0, None)
    ELSE
    LET fragment_data == c[key].val
        id == ReassemblyTimerId(v, key)
    IN IF fragment_data.missing_blocks # {}
       THEN Result(c, t, "none", "MissingFragments", "gaps", Some(key), 0, None)
       ELSE IF IsNone(fragment_data.header)
       THEN Result(c, t, "header_is_some", "Panic", "complete", Some(key), 0, None)
       ELSE LET h == ReassemblePacketHelper(v, fragment_data.header.val,
                                            fragment_data.body_fragments)
            IN Result([c EXCEPT ![key] = None], t, h.panic, h.outcome,
                      "complete", Some(key), 0, h.packet)

\* IpLayerFragmentCache::reassemble_packet(dispatcher, key, buffer)
ReassemblePacketFn(c, t, v, key) ==
    IF IsNone(c[key])
    THEN Result(c, t, "none", "InvalidKey", "no_entry", Some(key), 0, None)
    ELSE
    LET fragment_data == c[key].val
        id == ReassemblyTimerId(v, key)
    IN IF fragment_data.missing_blocks # {}
       THEN Result(c, t, "none", "MissingFragments", "gaps", Some(key), 0, None)
       ELSE IF IsNone(fragment_data.header)
       THEN Result(c, t, "header_is_some", "Panic", "complete", Some(key), 0, None)
       ELSE IF IsNone(t[id])
       THEN Result(c, t, "cancel_timeout", "Panic", "complete", Some(key), 0, None)
       ELSE LET h == ReassemblePacketHelper(v, fragment_data.header.val,
                                            fragment_data.body_fragments)
            IN Result([c EXCEPT ![key] = None], CancelTimeout(t, id), h.panic, h.outcome,
                      "complete", Some(key), 0, h.packet)

\* Mutant: a timeout empties the whole cache.
HandleReassemblyTimeoutFn_Clear(c, t, key) ==
    IF IsNone(c[key])
    THEN Result(c, t, "timeout_remove", "Panic", "fired", Some(key), 0, None)
    ELSE Result([k \in DOMAIN c |-> None], t, "none", "Removed", "fired", Some(key), 0, None)

\* Mutant: the timeout leaves the entry in the cache.
HandleReassemblyTimeoutFn_Keep(c, t, key) ==
    Result(c, t, "none", "Removed", "fired", Some(key), 0, None)

\* IpLayerFragmentCache::handle_reassembly_timeout(key)
HandleReassemblyTimeoutFn(c, t, key) ==
    IF IsNone(c[key])
    THEN Result(c, t, "timeout_remove", "Panic", "fired", Some(key), 0, None)
    ELSE Result([c EXCEPT ![key] = None], t, "none", "Removed", "fired", Some(key), 0, None)

---------------------------------------------------------------------------
(* Path MTU cache (core/src/ip/path_mtu.rs)                                *)

IPV4_MIN_MTU == 68
IPV6_MIN_MTU == 1280
MAINTENANCE_PERIOD == 3600
PMTU_STALE_TIMEOUT == 10800
PMTU_PLATEAUS == <<65535, 32000, 17914, 8166, 4352, 2002, 1492, 1280, 1006, 508, 296, 68>>

\* min_mtu::<I>()
min_mtu(v) == IF v = "v4" THEN IPV4_MIN_MTU ELSE IPV6_MIN_MTU

\* The loop of next_lower_pmtu_plateau from index i (1-based)
RECURSIVE NextLowerFrom(_, _)
NextLowerFrom(i, start_mtu) ==
    IF i > Len(PMTU_PLATEAUS) THEN None
    ELSE IF PMTU_PLATEAUS[i] < start_mtu THEN Some(PMTU_PLATEAUS[i])
    ELSE NextLowerFrom(i + 1, start_mtu)

\* Mutant: a plateau equal to start_mtu is returned.
next_lower_pmtu_plateau_OrEqual(start_mtu) == NextLowerFrom(1, start_mtu + 1)

\* next_lower_pmtu_plateau(start_mtu)
next_lower_pmtu_plateau(start_mtu) == NextLowerFrom(1, start_mtu)

\* PathMtuCacheKey::new(src_ip, dst_ip)
PathMtuCacheKey(src_ip, dst_ip) == <<src_ip, dst_ip>>

\* The third address of the tests (get_other_ip)
OtherIp(v) ==
    IF v = "v4" THEN <<192, 168, 0, 3>>
    ELSE <<0, 0, 0, 0, 0, 0, 0, 0, 0, 0, 0, 0, 192, 168, 0, 3>>

\* The paths the model updates: two for IPv4, one for IPv6
Paths(v) ==
    IF v = "v4"
    THEN {PathMtuCacheKey(LocalIp(v), RemoteIp(v)), PathMtuCacheKey(LocalIp(v), OtherIp(v))}
    ELSE {PathMtuCacheKey(LocalIp(v), RemoteIp(v))}

\* Mutant: a new entry is stamped one maintenance period ahead of the clock.
PathMtuCacheData_Ahead(pmtu, clock) == [pmtu |-> pmtu, last_updated |-> clock + MAINTENANCE_PERIOD]

\* PathMtuCacheData::new(pmtu, now)
PathMtuCacheData(pmtu, clock) == [pmtu |-> pmtu, last_updated |-> clock]

\* PathMtuCache::new(): no path has an entry
NewPathMtuCache(v) == [key \in Paths(v) |-> None]

\* IpLayerPathMtuCache::get_pmtu
get_pmtu(c, key) == IF IsSome(c[key]) THEN Some(c[key].val.pmtu) ELSE None

\* IpLayerPathMtuCache::get_last_updated
get_last_updated(c, key) == IF IsSome(c[key]) THEN Some(c[key].val.last_updated) ELSE None

\* The state one path MTU operation works on (the cache of one version and the
\* dispatcher's timer of that version), with what the operation returned
PmtuResult(c, flag, timer, pnc, result, prior, next) ==
    [cache |-> c, timer_scheduled |-> flag, timer |-> timer, panic |-> pnc,
     result |-> result, prior |-> prior, next |-> next]

\* Mutant: the maintenance timer is scheduled PMTU_STALE_TIMEOUT ahead.
create_maintenance_timer_StalePeriod(c, flag, timer, clock, result, prior, next) ==
    IF flag
    THEN PmtuResult(c, flag, timer, "maintenance_scheduled", "Panic", prior, next)
    ELSE IF IsSome(timer)
    THEN PmtuResult(c, TRUE, Some(clock + PMTU_STALE_TIMEOUT), "schedule_timer", "Panic",
                    prior, next)
    ELSE PmtuResult(c, TRUE, Some(clock + PMTU_STALE_TIMEOUT), "none", result, prior, next)

\* create_maintenance_timer(ctx), then returning (result, prior, next)
create_maintenance_timer(c, flag, timer, clock, result, prior, next) ==
    IF flag
    THEN PmtuResult(c, flag, timer, "maintenance_scheduled", "Panic", prior, next)
    ELSE IF IsSome(timer)
    THEN PmtuResult(c, TRUE, Some(clock + MAINTENANCE_PERIOD), "schedule_timer", "Panic",
                    prior, next)
    ELSE PmtuResult(c, TRUE, Some(clock + MAINTENANCE_PERIOD), "none", result, prior, next)

\* Mutant: the new MTU is stored without the check against the minimum.
update_pmtu_inner_NoMinCheck(s, clock, v, key, new_mtu) ==
    LET prior == get_pmtu(s.cache, key)
        c == [s.cache EXCEPT ![key] =
                 IF IsSome(@) THEN Some([@.val EXCEPT !.pmtu = new_mtu, !.last_updated = clock])
                 ELSE Some(PathMtuCacheData(new_mtu, clock))]
    IN IF ~s.timer_scheduled
       THEN create_maintenance_timer(c, s.timer_scheduled, s.timer, clock, "Ok", prior, None)
       ELSE PmtuResult(c, s.timer_scheduled, s.timer, "none", "Ok", prior, None)

\* Mutant: a rejected update still makes sure a maintenance timer is scheduled.
update_pmtu_inner_TimerOnErr(s, clock, v, key, new_mtu) ==
    LET prior == get_pmtu(s.cache, key)
        c == IF new_mtu < min_mtu(v) THEN s.cache
             ELSE [s.cache EXCEPT ![key] =
                      IF IsSome(@) THEN Some([@.val EXCEPT !.pmtu = new_mtu, !.last_updated = clock])
                      ELSE Some(PathMtuCacheData(new_mtu, clock))]
        result == IF new_mtu < min_mtu(v) THEN "Err" ELSE "Ok"
    IN IF ~s.timer_scheduled
       THEN create_maintenance_timer(c, s.timer_scheduled, s.timer, clock, result, prior, None)
       ELSE PmtuResult(c, s.timer_scheduled, s.timer, "none", result, prior, None)

\* Mutant: an update of an existing entry replaces pmtu but leaves last_updated.
update_pmtu_inner_KeepStamp(s, clock, v, key, new_mtu) ==
    IF new_mtu < min_mtu(v)
    THEN PmtuResult(s.cache, s.timer_scheduled, s.timer, "none", "Err",
                    get_pmtu(s.cache, key), None)
    ELSE LET prior == get_pmtu(s.cache, key)
             c == [s.cache EXCEPT ![key] =
                      IF IsSome(@) THEN Some([@.val EXCEPT !.pmtu = new_mtu])
                      ELSE Some(PathMtuCacheData(new_mtu, clock))]
         IN IF ~s.timer_scheduled
            THEN create_maintenance_timer(c, s.timer_scheduled, s.timer, clock, "Ok", prior, None)
            ELSE PmtuResult(c, s.timer_scheduled, s.timer, "none", "Ok", prior, None)

\* Mutant: every accepted update schedules the maintenance timer anew,
\* replacing the one pending.
update_pmtu_inner_Reschedule(s, clock, v, key, new_mtu) ==
    IF new_mtu < min_mtu(v)
    THEN PmtuResult(s.cache, s.timer_scheduled, s.timer, "none", "Err",
                    get_pmtu(s.cache, key), None)
    ELSE LET prior == get_pmtu(s.cache, key)
             c == [s.cache EXCEPT ![key] =
                      IF IsSome(@) THEN Some([@.val EXCEPT !.pmtu = new_mtu, !.last_updated = clock])
                      ELSE Some(PathMtuCacheData(new_mtu, clock))]
         IN PmtuResult(c, TRUE, Some(clock + MAINTENANCE_PERIOD), "none", "Ok", prior, None)

\* Mutant: the new MTU is checked against the IPv4 minimum whatever the version.
update_pmtu_inner_V4Floor(s, clock, v, key, new_mtu) ==
    IF new_mtu < IPV4_MIN_MTU
    THEN PmtuResult(s.cache, s.timer_scheduled, s.timer, "none", "Err",
                    get_pmtu(s.cache, key), None)
    ELSE LET prior == get_pmtu(s.cache, key)
             c == [s.cache EXCEPT ![key] =
                      IF IsSome(@) THEN Some([@.val EXCEPT !.pmtu = new_mtu, !.last_updated = clock])
                      ELSE Some(PathMtuCacheData(new_mtu, clock))]
         IN IF ~s.timer_scheduled
            THEN create_maintenance_timer(c, s.timer_scheduled, s.timer, clock, "Ok", prior, None)
            ELSE PmtuResult(c, s.timer_scheduled, s.timer, "none", "Ok", prior, None)

\* update_pmtu_inner(ctx, src_ip, dst_ip, new_mtu), s the state before
update_pmtu_inner(s, clock, v, key, new_mtu) ==
    IF new_mtu < min_mtu(v)
    THEN PmtuResult(s.cache, s.timer_scheduled, s.timer, "none", "Err",
                    get_pmtu(s.cache, key), None)
    ELSE LET prior == get_pmtu(s.cache, key)
             c == [s.cache EXCEPT ![key] =
                      IF IsSome(@) THEN Some([@.val EXCEPT !.pmtu = new_mtu, !.last_updated = clock])
                      ELSE Some(PathMtuCacheData(new_mtu, clock))]
         IN IF ~s.timer_scheduled
            THEN create_maintenance_timer(c, s.timer_scheduled, s.timer, clock, "Ok", prior, None)
            ELSE PmtuResult(c, s.timer_scheduled, s.timer, "none", "Ok", prior, None)

\* update_pmtu(ctx, src_ip, dst_ip, new_mtu)
update_pmtu(s, clock, v, key, new_mtu) == update_pmtu_inner(s, clock, v, key, new_mtu)

\* Mutant: an estimate that is not lower still refreshes the entry's last_updated.
update_pmtu_if_less_Refresh(s, clock, v, key, new_mtu) ==
    LET prev_mtu == get_pmtu(s.cache, key)
    IN IF IsNone(prev_mtu) THEN update_pmtu(s, clock, v, key, new_mtu)
       ELSE IF new_mtu < prev_mtu.val THEN update_pmtu(s, clock, v, key, new_mtu)
       ELSE PmtuResult([s.cache EXCEPT ![key] = Some([@.val EXCEPT !.last_updated = clock])],
                       s.timer_scheduled, s.timer, "none", "Ok", prev_mtu, None)

\* Mutant: the estimate is replaced whether or not the new one is lower.
update_pmtu_if_less_Always(s, clock, v, key, new_mtu) ==
    update_pmtu(s, clock, v, key, new_mtu)

\* update_pmtu_if_less(ctx, src_ip, dst_ip, new_mtu)
update_pmtu_if_less(s, clock, v, key, new_mtu) ==
    LET prev_mtu == get_pmtu(s.cache, key)
    IN IF IsNone(prev_mtu) THEN update_pmtu(s, clock, v, key, new_mtu)
       ELSE IF new_mtu < prev_mtu.val THEN update_pmtu(s, clock, v, key, new_mtu)
       ELSE PmtuResult(s.cache, s.timer_scheduled, s.timer, "none", "Ok", prev_mtu, None)

\* Mutant: with no plateau below from, the error carries no estimate.
update_pmtu_next_lower_ErrNone(s, clock, v, key, from) ==
    LET next_pmtu == next_lower_pmtu_plateau(from)
    IN IF IsSome(next_pmtu)
       THEN LET r == update_pmtu_if_less(s, clock, v, key, next_pmtu.val)
            IN IF r.result = "Ok" THEN [r EXCEPT !.next = next_pmtu] ELSE r
       ELSE PmtuResult(s.cache, s.timer_scheduled, s.timer, "none", "Err", None, None)

\* update_pmtu_next_lower(ctx, src_ip, dst_ip, from)
update_pmtu_next_lower(s, clock, v, key, from) ==
    LET next_pmtu == next_lower_pmtu_plateau(from)
    IN IF IsSome(next_pmtu)
       THEN LET r == update_pmtu_if_less(s, clock, v, key, next_pmtu.val)
            IN IF r.result = "Ok" THEN [r EXCEPT !.next = next_pmtu] ELSE r
       ELSE PmtuResult(s.cache, s.timer_scheduled, s.timer, "none", "Err",
                       get_pmtu(s.cache, key), None)

\* Mutant: an entry is stale only when older than PMTU_STALE_TIMEOUT.
Retain_Strict(c, curr_time) ==
    [key \in DOMAIN c |->
        IF IsSome(c[key]) /\ curr_time - c[key].val.last_updated <= PMTU_STALE_TIMEOUT
        THEN c[key] ELSE None]

\* The sweep of handle_pmtu_timer: cache.retain(|k, v| curr_time - v.last_updated < PMTU_STALE_TIMEOUT)
Retain(c, curr_time) ==
    [key \in DOMAIN c |->
        IF IsSome(c[key]) /\ curr_time - c[key].val.last_updated < PMTU_STALE_TIMEOUT
        THEN c[key] ELSE None]

IsEmpty(c) == \A key \in DOMAIN c : IsNone(c[key])

\* Mutant: the sweep leaves timer_scheduled set.
handle_pmtu_timer_KeepFlag(s, clock) ==
    IF ~s.timer_scheduled
    THEN PmtuResult(s.cache, s.timer_scheduled, s.timer, "timer_not_scheduled", "Panic", None, None)
    ELSE IF \E key \in DOMAIN s.cache :
                IsSome(s.cache[key]) /\ s.cache[key].val.last_updated > clock
    THEN PmtuResult(s.cache, s.timer_scheduled, s.timer, "duration_since", "Panic", None, None)
    ELSE LET c == Retain(s.cache, clock)
         IN IF ~IsEmpty(c)
            THEN create_maintenance_timer(c, s.timer_scheduled, s.timer, clock, "Swept", None, None)
            ELSE PmtuResult(c, s.timer_scheduled, s.timer, "none", "Swept", None, None)

\* Mutant: the sweep schedules the next maintenance timer also when it has
\* emptied the cache.
handle_pmtu_timer_AlwaysReschedule(s, clock) ==
    IF ~s.timer_scheduled
    THEN PmtuResult(s.cache, s.timer_scheduled, s.timer, "timer_not_scheduled", "Panic", None, None)
    ELSE IF \E key \in DOMAIN s.cache :
                IsSome(s.cache[key]) /\ s.cache[key].val.last_updated > clock
    THEN PmtuResult(s.cache, FALSE, s.timer, "duration_since", "Panic", None, None)
    ELSE create_maintenance_timer(Retain(s.cache, clock), FALSE, s.timer, clock, "Swept", None, None)

\* handle_pmtu_timer(ctx), the dispatcher having taken the timer off its list
handle_pmtu_timer(s, clock) ==
    IF ~s.timer_scheduled
    THEN PmtuResult(s.cache, s.timer_scheduled, s.timer, "timer_not_scheduled", "Panic", None, None)
    ELSE IF \E key \in DOMAIN s.cache :
                IsSome(s.cache[key]) /\ s.cache[key].val.last_updated > clock
    THEN PmtuResult(s.cache, FALSE, s.timer, "duration_since", "Panic", None, None)
    ELSE LET c == Retain(s.cache, clock)
         IN IF ~IsEmpty(c)
            THEN create_maintenance_timer(c, FALSE, s.timer, clock, "Swept", None, None)
            ELSE PmtuResult(c, FALSE, s.timer, "none", "Swept", None, None)

\* What a path MTU operation records: its name and arguments, the entry the
\* path had in the cache c it found, the last_updated of the entries it
\* removed, and what it returned.
PmtuReturned(op, v, key, arg, c, r) ==
    [op |-> op, version |-> v, key |-> key, arg |-> arg,
     before |-> IF key \in DOMAIN c THEN c[key] ELSE None,
     evicted |-> { c[k].val.last_updated : k \in { k \in DOMAIN c : IsSome(c[k]) /\ IsNone(r.cache[k]) } },
     result |-> r.result, prior |-> r.prior, next |-> r.next]

\* No path MTU call has returned a value the caller has yet to take.
PmtuIdle ==
    [op |-> "idle", version |-> "v4", key |-> <<>>, arg |-> 0, before |-> None, evicted |-> {},
     result |-> "none", prior |-> None, next |-> None]

---------------------------------------------------------------------------
(* The state machine *)

\* What an operation records: its name and arguments, the entry its key had on
\* entry, and what it returned.
Returned(op, v, key, pkt, before, r) ==
    [op |-> op, version |-> v, key |-> key, pkt |-> pkt, before |-> before,
     outcome |-> r.outcome, why |-> r.why, packet_len |-> r.packet_len, packet |-> r.packet]

\* No call has returned a value the caller has yet to take.
Idle ==
    [op |-> "idle", version |-> "v4", key |-> <<>>, pkt |-> None, before |-> None,
     outcome |-> "none", why |-> "none", packet_len |-> 0, packet |-> None]

\* The fragment a packet carries, as the history records it
Fragment(pkt) ==
    [offset |-> pkt.fragment_data.val[2], m_flag |-> pkt.fragment_data.val[3],
     len |-> BytesLen(pkt.body)]

\* The history after an operation on key that left the version's cache c:
\* emptied when the entry is gone, extended when the operation stored a fragment.
Accepted(acc, c, key, stored) ==
    [acc EXCEPT ![key] = IF IsNone(c[key]) THEN {} ELSE @ \cup stored]

Init ==
    /\ cache = [v \in Versions |-> [k \in Keys(v) |-> None]]
    /\ timers = [id \in TimerIds |-> None]
    /\ now = 0
    /\ panic = "none"
    /\ ret = Idle
    /\ accepted = [v \in Versions |-> [k \in Keys(v) |-> {}]]
    /\ pmtu_cache = [v \in Versions |-> NewPathMtuCache(v)]
    /\ timer_scheduled = [v \in Versions |-> FALSE]
    /\ pmtu_timers = [v \in Versions |-> None]
    /\ pmtu_ret = PmtuIdle
    /\ if_less_stored = [v \in Versions |-> [key \in Paths(v) |-> None]]

\* process_fragment::<B, D, I>(ctx, packet)
ProcessFragment(v, pkt) ==
    /\ panic = "none"
    /\ ret = Idle
    /\ LET r == ProcessFragmentFn(cache[v], timers, now, pkt)
           key == FragmentCacheKey(pkt.src_ip, pkt.dst_ip, pkt.id)
       IN /\ cache' = [cache EXCEPT ![v] = r.c]
          /\ timers' = r.t
          /\ panic' = r.panic
          /\ ret' = Returned("process_fragment", v, key, Some(pkt), cache[v][key], r)
          /\ accepted' = [accepted EXCEPT ![v] =
                 Accepted(@, r.c, key,
                          IF r.outcome \in {"Ready", "NeedMoreFragments"} /\ r.why = "placed"
                          THEN {Fragment(pkt)} ELSE {})]
    /\ UNCHANGED <<now, pmtu_vars>>

\* reassemble_packet::<B, BV, D, I>(ctx, key, buffer), with a buffer of the
\* length Ready reported
ReassemblePacket(v, key) ==
    /\ panic = "none"
    /\ ret = Idle
    /\ LET r == ReassemblePacketFn(cache[v], timers, v, key)
       IN /\ cache' = [cache EXCEPT ![v] = r.c]
          /\ timers' = r.t
          /\ panic' = r.panic
          /\ ret' = Returned("reassemble_packet", v, key, None, cache[v][key], r)
          /\ accepted' = [accepted EXCEPT ![v] = Accepted(@, r.c, key, {})]
    /\ UNCHANGED <<now, pmtu_vars>>

\* The dispatcher delivers a due reassembly timer: the timer leaves the
\* dispatcher and handle_reassembly_timeout(ctx, key) routes it by version.
ReassemblyTimeout(v, key) ==
    /\ panic = "none"
    /\ ret = Idle
    /\ IsSome(timers[ReassemblyTimerId(v, key)])
    /\ timers[ReassemblyTimerId(v, key)].val <= now
    /\ LET r == HandleReassemblyTimeoutFn(cache[v], CancelTimeout(timers, ReassemblyTimerId(v, key)), key)
       IN /\ cache' = [cache EXCEPT ![v] = r.c]
          /\ timers' = r.t
          /\ panic' = r.panic
          /\ ret' = Returned("handle_reassembly_timeout", v, key, None, cache[v][key], r)
          /\ accepted' = [accepted EXCEPT ![v] = Accepted(@, r.c, key, {})]
    /\ UNCHANGED <<now, pmtu_vars>>

\* Time passes.
Tick(d) ==
    /\ panic = "none"
    /\ ret = Idle
    /\ now + d <= MaxTime
    /\ now' = now + d
    /\ UNCHANGED <<cache, timers, panic, ret, accepted, pmtu_vars>>

TickSteps == {30}

\* The caller takes the value the last operation returned; the single-threaded
\* context then runs the next operation.
Return ==
    /\ panic = "none"
    /\ ret # Idle
    /\ ret' = Idle
    /\ UNCHANGED <<cache, timers, now, panic, accepted, pmtu_vars>>

Next ==
    \/ \E pkt \in Packets : ProcessFragment(pkt.version, pkt)
    \/ \E key \in Keys("v4") : ReassemblePacket("v4", key)
    \/ \E v \in Versions : \E key \in Keys(v) : ReassemblyTimeout(v, key)
    \/ \E d \in TickSteps : Tick(d)
    \/ Return

Spec == Init /\ [][Next]_vars

\* Several datagrams at once: the fragments of two IPv4 datagrams (ids 5 and
\* 10) of two blocks each, in every flag combination, and a non-aligned one.
KeysBodyLens == {7, 8}
KeysOffsets == {0, 1}

KeysPackets ==
    { Packet("v4", id, TRUE, o, m, l) :
          id \in FragIds, o \in KeysOffsets, m \in BOOLEAN, l \in KeysBodyLens }

NextKeys ==
    \/ \E pkt \in KeysPackets : ProcessFragment(pkt.version, pkt)
    \/ \E key \in Keys("v4") : ReassemblePacket("v4", key)
    \/ \E v \in Versions : \E key \in Keys(v) : ReassemblyTimeout(v, key)
    \/ \E d \in TickSteps : Tick(d)
    \/ Return

SpecKeys == Init /\ [][NextKeys]_vars

---------------------------------------------------------------------------
(* The path MTU cache under its operations *)

\* The MTUs offered to update_pmtu and update_pmtu_if_less: one below the
\* version's minimum, the minimum, and for IPv4 the value of the tests above it
NewMtus(v) ==
    IF v = "v4" THEN {min_mtu(v) - 1, min_mtu(v), min_mtu(v) + 50}
    ELSE {min_mtu(v) - 1, min_mtu(v)}

\* The estimates update_pmtu_next_lower starts from: the lowest plateau (no
\* plateau below), one above it, a value between plateaus; for IPv6 its
\* minimum (the plateau below is under the minimum) and one above it
FromMtus(v) == IF v = "v4" THEN {68, 69, 600} ELSE {1280, 1281}

\* The state an operation of version v works on
PmtuState(v) ==
    [cache |-> pmtu_cache[v], timer_scheduled |-> timer_scheduled[v], timer |-> pmtu_timers[v]]

\* The state an operation left, and what it returned
PmtuDone(op, v, key, arg, r) ==
    /\ pmtu_cache' = [pmtu_cache EXCEPT ![v] = r.cache]
    /\ timer_scheduled' = [timer_scheduled EXCEPT ![v] = r.timer_scheduled]
    /\ pmtu_timers' = [pmtu_timers EXCEPT ![v] = r.timer]
    /\ panic' = r.panic
    /\ pmtu_ret' = PmtuReturned(op, v, key, arg, pmtu_cache[v], r)
    /\ UNCHANGED <<cache, timers, now, ret, accepted>>

\* update_pmtu(ctx, src_ip, dst_ip, new_mtu)
UpdatePmtu(v, key, new_mtu) ==
    /\ panic = "none"
    /\ pmtu_ret = PmtuIdle
    /\ PmtuDone("update_pmtu", v, key, new_mtu, update_pmtu(PmtuState(v), now, v, key, new_mtu))
    /\ UNCHANGED if_less_stored

\* The call update_pmtu_if_less(ctx, src_ip, dst_ip, new_mtu)
UpdatePmtuIfLessCall(v, key, new_mtu) ==
    /\ panic = "none"
    /\ pmtu_ret = PmtuIdle
    /\ PmtuDone("update_pmtu_if_less", v, key, new_mtu,
                update_pmtu_if_less(PmtuState(v), now, v, key, new_mtu))

\* update_pmtu_if_less(ctx, src_ip, dst_ip, new_mtu)
UpdatePmtuIfLess(v, key, new_mtu) ==
    /\ UpdatePmtuIfLessCall(v, key, new_mtu)
    /\ UNCHANGED if_less_stored

\* update_pmtu_next_lower(ctx, src_ip, dst_ip, from)
UpdatePmtuNextLower(v, key, from) ==
    /\ panic = "none"
    /\ pmtu_ret = PmtuIdle
    /\ PmtuDone("update_pmtu_next_lower", v, key, from,
                update_pmtu_next_lower(PmtuState(v), now, v, key, from))
    /\ UNCHANGED if_less_stored

\* The other IP version
OtherVersion(v) == IF v = "v4" THEN "v6" ELSE "v4"

\* Mutant: the due maintenance timer of version v leaves the dispatcher but
\* the sweep runs on the other version's cache.
PmtuTimer_Misrouted(v) ==
    /\ panic = "none"
    /\ pmtu_ret = PmtuIdle
    /\ IsSome(pmtu_timers[v])
    /\ pmtu_timers[v].val <= now
    /\ LET r == handle_pmtu_timer(PmtuState(OtherVersion(v)), now)
       IN /\ pmtu_cache' = [pmtu_cache EXCEPT ![OtherVersion(v)] = r.cache]
          /\ timer_scheduled' = [timer_scheduled EXCEPT ![OtherVersion(v)] = r.timer_scheduled]
          /\ pmtu_timers' = [pmtu_timers EXCEPT ![v] = None, ![OtherVersion(v)] = r.timer]
          /\ panic' = r.panic
          /\ pmtu_ret' = PmtuReturned("handle_pmtu_timer", OtherVersion(v), <<>>, 0,
                                      pmtu_cache[OtherVersion(v)], r)
    /\ UNCHANGED <<cache, timers, now, ret, accepted, if_less_stored>>

\* The dispatcher delivers the due maintenance timer of version v: the timer
\* leaves the dispatcher and handle_pmtu_timer::<I>(ctx) runs.
PmtuTimer(v) ==
    /\ panic = "none"
    /\ pmtu_ret = PmtuIdle
    /\ IsSome(pmtu_timers[v])
    /\ pmtu_timers[v].val <= now
    /\ PmtuDone("handle_pmtu_timer", v, <<>>, 0,
                handle_pmtu_timer([PmtuState(v) EXCEPT !.timer = None], now))
    /\ UNCHANGED if_less_stored

\* Time passes.
PmtuTick(d) ==
    /\ panic = "none"
    /\ pmtu_ret = PmtuIdle
    /\ now + d <= MaxPmtuTime
    /\ now' = now + d
    /\ UNCHANGED <<cache, timers, panic, ret, accepted, pmtu_vars>>

PmtuTickSteps == {MAINTENANCE_PERIOD}

\* The caller takes the value the last path MTU operation returned.
PmtuReturn ==
    /\ panic = "none"
    /\ pmtu_ret # PmtuIdle
    /\ pmtu_ret' = PmtuIdle
    /\ UNCHANGED <<cache, timers, now, panic, ret, accepted, pmtu_cache, timer_scheduled, pmtu_timers,
                   if_less_stored>>

NextPmtu ==
    \/ \E v \in Versions : \E key \in Paths(v) : \E new_mtu \in NewMtus(v) :
          UpdatePmtu(v, key, new_mtu)
    \/ \E v \in Versions : \E key \in Paths(v) : \E new_mtu \in NewMtus(v) :
          UpdatePmtuIfLess(v, key, new_mtu)
    \/ \E v \in Versions : \E key \in Paths(v) : \E from \in FromMtus(v) :
          UpdatePmtuNextLower(v, key, from)
    \/ \E v \in Versions : PmtuTimer(v)
    \/ \E d \in PmtuTickSteps : PmtuTick(d)
    \/ PmtuReturn

SpecPmtu == Init /\ [][NextPmtu]_vars

---------------------------------------------------------------------------
(* A path's estimate under update_pmtu_if_less and the maintenance sweep *)

\* update_pmtu_if_less(ctx, src_ip, dst_ip, new_mtu), the history recording the
\* pmtu the call left stored for the path
RecordedIfLess(v, key, new_mtu) ==
    /\ UpdatePmtuIfLessCall(v, key, new_mtu)
    /\ if_less_stored' =
          [if_less_stored EXCEPT ![v][key] =
              IF IsSome(pmtu_cache'[v][key]) THEN get_pmtu(pmtu_cache'[v], key) ELSE @]

NextDescent ==
    \/ \E v \in Versions : \E key \in Paths(v) : \E new_mtu \in NewMtus(v) :
          RecordedIfLess(v, key, new_mtu)
    \/ \E v \in Versions : PmtuTimer(v)
    \/ \E d \in PmtuTickSteps : PmtuTick(d)
    \/ PmtuReturn

SpecDescent == Init /\ [][NextDescent]_vars

---------------------------------------------------------------------------
(* Properties *)

EntryOf(v, k) == cache[v][k]
TimerOf(v, k) == timers[ReassemblyTimerId(v, k)]

\* The blocks a fragment of len bytes at offset covers: ceil(len / 8) of them
FirstBlock(f) == f.offset
LastBlock(f) == f.offset + ((f.len + 7) \div 8) - 1
SharesBlock(f, g) ==
    /\ f.len > 0 /\ g.len > 0
    /\ FirstBlock(f) <= LastBlock(g) /\ FirstBlock(g) <= LastBlock(f)

\* The rules a fragment can break on its own
IsFragmented(f) == ~(f.offset = 0 /\ ~f.m_flag)
NotAligned(f) == f.m_flag /\ f.len % 8 # 0
OutOfRange(f) == LastBlock(f) > MAX_FRAGMENT_BLOCKS
WellFormed(f) == IsFragmented(f) /\ f.len > 0 /\ ~NotAligned(f) /\ ~OutOfRange(f)

\* The last call was process_fragment on a packet that has fragment data
ProcessedFragment(r) == r.op = "process_fragment" /\ IsSome(r.pkt.val.fragment_data)

\* The fragments stored in an entry, from its heap: negated key, body length
StoredFragments(data) ==
    { [offset |-> (-1) * data.body_fragments[i][1], len |-> BytesLen(data.body_fragments[i][2])] :
        i \in 1..Len(data.body_fragments) }

\* C1: an entry for a key exists in the cache if and only if a reassembly
\* timer for that key is pending in the dispatcher, in every reachable state.
C1_EntryIffTimer ==
    \A v \in Versions : \A k \in Keys(v) : IsSome(EntryOf(v, k)) <=> IsSome(TimerOf(v, k))

\* An entry that has taken a second fragment, its timer pending.
C1_Witness ==
    /\ ProcessedFragment(ret) /\ IsSome(ret.before) /\ ret.outcome = "NeedMoreFragments"
    /\ IsSome(EntryOf(ret.version, ret.key)) /\ IsSome(TimerOf(ret.version, ret.key))

\* C2: no sequence of received fragments makes the assertion of the gap
\* algorithm fail (a fragment placed without a trailing gap ends at the end of
\* the found gap, or has more == false and the found gap ends at 65535).
C2_GapAssertionHolds == panic # "gap_assertion"

\* C3 as stated: whenever process_fragment returns InvalidFragment, no entry
\* and no timer is left for the fragment's key.
C3_InvalidDiscards ==
    (ret.op = "process_fragment" /\ ret.outcome = "InvalidFragment")
        => IsNone(EntryOf(ret.version, ret.key)) /\ IsNone(TimerOf(ret.version, ret.key))

\* C3 amended: when process_fragment returns InvalidFragment because the block
\* range lies in no single gap, the key's entry is removed and its timer
\* cancelled; when it returns InvalidFragment for a non-aligned non-terminal
\* body or a range beyond block 8191, an entry the key had and every timer are
\* left as they were.
C3_InvalidDiscardsOnOverlapOnly ==
    [][ (ret'.op = "process_fragment" /\ ret'.outcome = "InvalidFragment") =>
          LET v == ret'.version
              k == ret'.key
              f == Fragment(ret'.pkt.val)
          IN IF NotAligned(f) \/ OutOfRange(f)
             THEN IsSome(cache[v][k]) => (cache' = cache /\ timers' = timers)
             ELSE /\ IsSome(cache[v][k])
                  /\ IsNone(cache'[v][k])
                  /\ IsNone(timers'[ReassemblyTimerId(v, k)]) ]_vars

\* A non-aligned fragment rejected while its key has an entry, which stays.
C3_Witness ==
    /\ ProcessedFragment(ret) /\ ret.outcome = "InvalidFragment"
    /\ NotAligned(Fragment(ret.pkt.val))
    /\ IsSome(ret.before) /\ EntryOf(ret.version, ret.key) = ret.before

\* C4 as stated: a fragment whose block range shares a block with a fragment
\* already accepted for its key is answered InvalidFragment, and the entry and
\* its timer are gone.
C4_OverlapDiscards ==
    (/\ ProcessedFragment(ret) /\ IsSome(ret.before)
     /\ \E g \in StoredFragments(ret.before.val) : SharesBlock(Fragment(ret.pkt.val), g))
        => /\ ret.outcome = "InvalidFragment"
           /\ IsNone(EntryOf(ret.version, ret.key))
           /\ IsNone(TimerOf(ret.version, ret.key))

\* C4 amended: a fragment that is fragmented (not offset 0 with more == false),
\* block-aligned unless terminal and within block 8191, and whose block range
\* shares a block with a fragment already accepted for its key, is answered
\* InvalidFragment, and the entry and its timer are gone; reassemble_packet on
\* a key without entry returns InvalidKey.
C4_WellFormedOverlapDiscards ==
    /\ (/\ ProcessedFragment(ret) /\ IsSome(ret.before)
        /\ WellFormed(Fragment(ret.pkt.val))
        /\ \E g \in StoredFragments(ret.before.val) : SharesBlock(Fragment(ret.pkt.val), g))
           => /\ ret.outcome = "InvalidFragment"
              /\ IsNone(EntryOf(ret.version, ret.key))
              /\ IsNone(TimerOf(ret.version, ret.key))
    /\ (ret.op = "reassemble_packet" /\ IsNone(ret.before)) => ret.outcome = "InvalidKey"

\* A two-block fragment straddling an accepted one-block fragment, rejected.
C4_Witness ==
    /\ ProcessedFragment(ret) /\ IsSome(ret.before)
    /\ WellFormed(Fragment(ret.pkt.val))
    /\ \E g \in StoredFragments(ret.before.val) :
          /\ SharesBlock(Fragment(ret.pkt.val), g)
          /\ FirstBlock(Fragment(ret.pkt.val)) < FirstBlock(g)
    /\ ret.outcome = "InvalidFragment"
    /\ IsNone(EntryOf(ret.version, ret.key))

\* A set of fragments some datagram could have been cut into: each well
\* formed, no two sharing a block, at most one with more == false, and that
\* one above all others.
ValidFragments(S) ==
    /\ \A f \in S : WellFormed(f)
    /\ \A f, g \in S : f # g => ~SharesBlock(f, g)
    /\ \A f, g \in S : (f # g /\ ~f.m_flag) => (g.m_flag /\ LastBlock(g) < FirstBlock(f))

RECURSIVE SumLen(_)
SumLen(S) == IF S = {} THEN 0 ELSE LET f == CHOOSE f \in S : TRUE IN f.len + SumLen(S \ {f})

RECURSIVE SumBlocks(_)
SumBlocks(S) ==
    IF S = {} THEN 0
    ELSE LET f == CHOOSE f \in S : TRUE IN (LastBlock(f) - FirstBlock(f) + 1) + SumBlocks(S \ {f})

\* Valid fragments covering [0, N] exactly once, the more == false one ending at N
Covers(S) ==
    /\ ValidFragments(S)
    /\ \E f \in S : ~f.m_flag /\ SumBlocks(S) = LastBlock(f) + 1

\* The bodies of the fragments of datagram id, concatenated in ascending
\* offset order
RECURSIVE ExpectedBody(_, _)
ExpectedBody(id, S) ==
    IF S = {} THEN <<>>
    ELSE LET f == CHOOSE f \in S : \A g \in S : f.offset <= g.offset
         IN Extend(TestBody(id, f.offset, f.len), ExpectedBody(id, S \ {f}))

\* What the delivery of a next fragment of a valid set returns: the fragment
\* joins the accepted ones, Ready if they now cover [0, N], else NeedMoreFragments
NextOfValidSetAccepted ==
    ProcessedFragment(ret') =>
        LET v == ret'.version
            k == ret'.key
            f == Fragment(ret'.pkt.val)
            S == accepted[v][k] \cup {f}
        IN (f \notin accepted[v][k] /\ ValidFragments(S)) =>
              /\ accepted'[v][k] = S
              /\ ret'.outcome = IF Covers(S) THEN "Ready" ELSE "NeedMoreFragments"

\* C5 as stated: the fragments of a valid set covering [0, N], N <= 8191,
\* delivered in any order, yield NeedMoreFragments up to the last and Ready for
\* the last, and reassemble_packet then returns the bodies concatenated in
\* ascending offset order.
C5_OrderIndependence ==
    [][ /\ NextOfValidSetAccepted
        /\ (ret'.op = "reassemble_packet" /\ Covers(accepted[ret'.version][ret'.key])) =>
              /\ ret'.outcome = "Ok"
              /\ ret'.packet.val.body =
                     ExpectedBody(ret'.key[3], accepted[ret'.version][ret'.key]) ]_vars

\* C5 amended: the fragments of a valid set covering [0, N], N <= 8191,
\* delivered in any order, yield NeedMoreFragments up to the last and Ready for
\* the last; when the IPv4 header and the bodies together are at most 65535
\* bytes, reassemble_packet then returns the bodies concatenated in ascending
\* offset order, and PacketParsingError when they are more.
C5_OrderIndependenceUpToMaxLength ==
    [][ /\ NextOfValidSetAccepted
        /\ (ret'.op = "reassemble_packet" /\ Covers(accepted[ret'.version][ret'.key])) =>
              LET S == accepted[ret'.version][ret'.key]
              IN IF IPV4_HEADER_LEN + SumLen(S) <= U16_MAX
                 THEN /\ ret'.outcome = "Ok"
                      /\ ret'.packet.val.body = ExpectedBody(ret'.key[3], S)
                 ELSE ret'.outcome = "PacketParsingError" ]_vars

\* Three or more fragments delivered with the first one last: it returns Ready.
C5_Witness ==
    /\ ProcessedFragment(ret) /\ ret.outcome = "Ready"
    /\ Fragment(ret.pkt.val).offset = 0
    /\ Cardinality(accepted[ret.version][ret.key]) >= 3
    /\ Covers(accepted[ret.version][ret.key])

\* The gaps of a new entry that has taken fragment f
FreshGaps(f) ==
    (IF FirstBlock(f) > 0 THEN {<<0, FirstBlock(f) - 1>>} ELSE {})
        \cup (IF f.m_flag THEN {<<LastBlock(f) + 1, U16_MAX>>} ELSE {})

\* C6: once the reassembly timer of an incomplete entry has fired, the entry
\* and its timer are gone, reassemble_packet for the key returns InvalidKey,
\* and any well-formed fragment for the key, one that would have completed the
\* old entry included, starts a new entry: NeedMoreFragments, the gaps of a
\* first fragment, a timer due 60 s from its arrival.
C6_TimeoutDiscards ==
    /\ (/\ ret.op = "handle_reassembly_timeout"
        /\ IsSome(ret.before) /\ ret.before.val.missing_blocks # {})
           => LET v == ret.version
                  k == ret.key
              IN /\ panic = "none"
                 /\ IsNone(EntryOf(v, k)) /\ IsNone(TimerOf(v, k))
                 /\ ReassemblePacketFn(cache[v], timers, v, k).outcome = "InvalidKey"
                 /\ \A pkt \in Packets :
                       (/\ pkt.version = v
                        /\ IsSome(pkt.fragment_data)
                        /\ FragmentCacheKey(pkt.src_ip, pkt.dst_ip, pkt.id) = k
                        /\ WellFormed(Fragment(pkt)))
                           => LET r == ProcessFragmentFn(cache[v], timers, now, pkt)
                              IN /\ r.outcome = "NeedMoreFragments"
                                 /\ r.c[k].val.missing_blocks = FreshGaps(Fragment(pkt))
                                 /\ r.t[ReassemblyTimerId(v, k)] =
                                        Some(now + REASSEMBLY_TIMEOUT_SECONDS)
    /\ (ProcessedFragment(ret) /\ IsNone(ret.before) /\ WellFormed(Fragment(ret.pkt.val)))
           => /\ ret.outcome = "NeedMoreFragments"
              /\ EntryOf(ret.version, ret.key).val.missing_blocks = FreshGaps(Fragment(ret.pkt.val))
              /\ TimerOf(ret.version, ret.key) = Some(now + REASSEMBLY_TIMEOUT_SECONDS)

\* The timer of an entry one fragment short of complete has fired.
C6_Witness ==
    /\ ret.op = "handle_reassembly_timeout" /\ IsSome(ret.before)
    /\ ret.before.val.missing_blocks # {}
    /\ Len(ret.before.val.body_fragments) >= 2
    /\ IsNone(EntryOf(ret.version, ret.key))
    /\ \E pkt \in Packets :
          /\ IsSome(pkt.fragment_data) /\ WellFormed(Fragment(pkt))
          /\ ProcessFragmentFn([cache[ret.version] EXCEPT ![ret.key] = ret.before],
                               [timers EXCEPT ![ReassemblyTimerId(ret.version, ret.key)] = Some(now)],
                               now, pkt).outcome = "Ready"

PendingTimers(t) == { id \in TimerIds : IsSome(t[id]) }
Entries(c) == UNION { { <<v, k>> : k \in { k \in Keys(v) : IsSome(c[v][k]) } } : v \in Versions }

\* C7: a pending reassembly timer keeps its deadline until it is cancelled or
\* fires; a timer becomes pending only in the process_fragment call that
\* creates the entry of its key, due 60 s later; and there are as many pending
\* reassembly timers as entries.
C7_TimerNeverRenewed ==
    [][ /\ \A v \in Versions : \A k \in Keys(v) :
              LET id == ReassemblyTimerId(v, k)
              IN /\ (IsSome(timers[id]) /\ IsSome(timers'[id])) => timers'[id] = timers[id]
                 /\ (IsNone(timers[id]) /\ IsSome(timers'[id])) =>
                       /\ ret'.op = "process_fragment"
                       /\ ret'.version = v /\ ret'.key = k
                       /\ IsNone(cache[v][k]) /\ IsSome(cache'[v][k])
                       /\ timers'[id] = Some(now + REASSEMBLY_TIMEOUT_SECONDS)
        /\ Cardinality(PendingTimers(timers')) = Cardinality(Entries(cache')) ]_vars

\* A fragment accepted into an entry created 30 s or more before: the timer
\* is still due 60 s after the creation.
C7_Witness ==
    /\ ProcessedFragment(ret) /\ IsSome(ret.before)
    /\ ret.outcome \in {"NeedMoreFragments", "Ready"} /\ ret.why = "placed"
    /\ IsSome(TimerOf(ret.version, ret.key))
    /\ TimerOf(ret.version, ret.key).val < now + REASSEMBLY_TIMEOUT_SECONDS

\* Ranges [lo, hi] with lo <= hi inside [0, 65535], pairwise disjoint, no two adjacent
GapsSeparated(missing_blocks) ==
    /\ \A g \in missing_blocks : 0 <= g[1] /\ g[1] <= g[2] /\ g[2] <= U16_MAX
    /\ \A g, h \in missing_blocks : g # h => (g[2] + 1 < h[1] \/ h[2] + 1 < g[1])

\* C8: the missing_blocks of every entry are ranges [lo, hi] with lo <= hi
\* inside [0, 65535], pairwise disjoint and never adjacent; an entry that has
\* taken no fragment has the single range [0, 65535].
C8_GapsSeparated ==
    /\ NewFragmentCacheData.missing_blocks = {<<0, U16_MAX>>}
    /\ \A v \in Versions : \A k \in Keys(v) :
          IsSome(EntryOf(v, k)) =>
              /\ GapsSeparated(EntryOf(v, k).val.missing_blocks)
              /\ EntryOf(v, k).val.body_fragments = <<>>
                    => EntryOf(v, k).val.missing_blocks = {<<0, U16_MAX>>}

\* An entry with three gaps, after a fragment split a gap in two.
C8_Witness ==
    /\ ProcessedFragment(ret) /\ IsSome(ret.before) /\ ret.why = "placed"
    /\ Cardinality(ret.before.val.missing_blocks) = 2
    /\ IsSome(EntryOf(ret.version, ret.key))
    /\ Cardinality(EntryOf(ret.version, ret.key).val.missing_blocks) = 3

RECURSIVE SumBodies(_)
SumBodies(body_fragments) ==
    IF body_fragments = <<>> THEN 0
    ELSE BytesLen(Head(body_fragments)[2]) + SumBodies(Tail(body_fragments))

\* C9: the total_size of every entry is the length of its header (0 if absent)
\* plus the lengths of its body fragments, and the packet_len of Ready is the
\* header length plus 8 * the offset of the accepted more == false fragment
\* plus the length of that fragment.
C9_TotalSizeAndPacketLen ==
    /\ \A v \in Versions : \A k \in Keys(v) :
          IsSome(EntryOf(v, k)) =>
              LET data == EntryOf(v, k).val
              IN data.total_size =
                    (IF IsSome(data.header) THEN Len(data.header.val) ELSE 0)
                        + SumBodies(data.body_fragments)
    /\ (ProcessedFragment(ret) /\ ret.outcome = "Ready") =>
          \A f \in accepted[ret.version][ret.key] :
              ~f.m_flag =>
                  ret.packet_len = IPV4_HEADER_LEN + FRAGMENT_BLOCK_SIZE * f.offset + f.len

\* C10: the header of an entry is present if and only if a fragment with
\* offset 0 has been accepted into it; neither the assertion that the header
\* was absent at capture nor the assertion that it is present at reassembly
\* fails; and an entry without gaps has its header.
C10_HeaderIffOffsetZero ==
    /\ panic \notin {"header_is_none", "header_is_some"}
    /\ \A v \in Versions : \A k \in Keys(v) :
          IsSome(EntryOf(v, k)) =>
              LET data == EntryOf(v, k).val
              IN /\ IsSome(data.header) <=> (\E f \in accepted[v][k] : f.offset = 0)
                 /\ IsSome(data.header) <=> (\E f \in StoredFragments(data) : f.offset = 0)
                 /\ data.missing_blocks = {} => IsSome(data.header)

\* A second fragment with offset 0 offered to an entry that has its header:
\* rejected before header capture.
C10_Witness ==
    /\ ProcessedFragment(ret) /\ IsSome(ret.before)
    /\ IsSome(ret.before.val.header)
    /\ Fragment(ret.pkt.val).offset = 0 /\ WellFormed(Fragment(ret.pkt.val))
    /\ ret.outcome = "InvalidFragment" /\ ret.why = "no_gap"
    /\ panic = "none"

\* C11: reassemble_packet returns InvalidKey for a key without entry and
\* MissingFragments for an entry with gaps left, and in both cases leaves the
\* whole cache and every timer as they were.
C11_FailedReassemblyChangesNothing ==
    [][ ret'.op = "reassemble_packet" =>
          LET entry == cache[ret'.version][ret'.key]
          IN /\ IsNone(entry) =>
                   ret'.outcome = "InvalidKey" /\ cache' = cache /\ timers' = timers
             /\ (IsSome(entry) /\ entry.val.missing_blocks # {}) =>
                   ret'.outcome = "MissingFragments" /\ cache' = cache /\ timers' = timers
             /\ ret'.outcome \in {"InvalidKey", "MissingFragments"} =>
                   cache' = cache /\ timers' = timers ]_vars

\* reassemble_packet on an entry that has fragments and gaps: MissingFragments,
\* the entry and its timer still there.
C11_Witness ==
    /\ ret.op = "reassemble_packet" /\ ret.outcome = "MissingFragments"
    /\ IsSome(ret.before) /\ Len(ret.before.val.body_fragments) >= 2
    /\ EntryOf(ret.version, ret.key) = ret.before
    /\ IsSome(TimerOf(ret.version, ret.key))

\* C12: reassemble_packet on an entry without gaps removes the entry and
\* cancels its timer, whether it returns the packet or PacketParsingError; a
\* second reassemble_packet of the key returns InvalidKey; and the timer of the
\* key is delivered only while it is pending, so not after the reassembly.
C12_ReassemblyConsumesEntry ==
    [][ /\ (/\ ret'.op = "reassemble_packet"
            /\ IsSome(cache[ret'.version][ret'.key])
            /\ cache[ret'.version][ret'.key].val.missing_blocks = {})
               => LET v == ret'.version
                      k == ret'.key
                  IN /\ ret'.outcome \in {"Ok", "PacketParsingError"}
                     /\ IsNone(cache'[v][k])
                     /\ IsNone(timers'[ReassemblyTimerId(v, k)])
                     /\ ReassemblePacketFn(cache'[v], timers', v, k).outcome = "InvalidKey"
        /\ ret'.op = "handle_reassembly_timeout" =>
               IsSome(timers[ReassemblyTimerId(ret'.version, ret'.key)]) ]_vars

\* A complete entry whose reassembly failed with PacketParsingError: gone.
C12_Witness ==
    /\ ret.op = "reassemble_packet" /\ ret.outcome = "PacketParsingError"
    /\ IsSome(ret.before) /\ ret.before.val.missing_blocks = {}
    /\ IsNone(EntryOf(ret.version, ret.key)) /\ IsNone(TimerOf(ret.version, ret.key))

\* C13: for a packet without fragment data, or with offset 0 and more ==
\* false, process_fragment returns NotNeeded with the packet as it came and
\* leaves the cache and every timer as they were.
C13_NotNeededChangesNothing ==
    [][ (/\ ret'.op = "process_fragment"
         /\ \/ IsNone(ret'.pkt.val.fragment_data)
            \/ ~IsFragmented(Fragment(ret'.pkt.val)))
           => /\ ret'.outcome = "NotNeeded"
              /\ ret'.packet = ret'.pkt
              /\ cache' = cache /\ timers' = timers /\ panic' = "none" ]_vars

\* A packet with offset 0 and more == false whose key has an entry.
C13_Witness ==
    /\ ProcessedFragment(ret) /\ ~IsFragmented(Fragment(ret.pkt.val))
    /\ ret.outcome = "NotNeeded"
    /\ IsSome(ret.before) /\ EntryOf(ret.version, ret.key) = ret.before

\* C14: a fragment with an empty body, and offset # 0 or more == true, makes
\* process_fragment return NeedMoreFragments and changes nothing: no entry, no
\* timer, and an existing entry, complete or not, as it was.
C14_EmptyFragmentChangesNothing ==
    [][ (/\ ProcessedFragment(ret')
         /\ IsFragmented(Fragment(ret'.pkt.val))
         /\ Fragment(ret'.pkt.val).len = 0)
           => /\ ret'.outcome = "NeedMoreFragments"
              /\ cache' = cache /\ timers' = timers /\ panic' = "none" ]_vars

\* An empty fragment offered to a complete entry.
C14_Witness ==
    /\ ProcessedFragment(ret) /\ Fragment(ret.pkt.val).len = 0
    /\ ret.outcome = "NeedMoreFragments"
    /\ IsSome(ret.before) /\ ret.before.val.missing_blocks = {}
    /\ EntryOf(ret.version, ret.key) = ret.before

\* C16: a delivered reassembly timer finds the entry of its key and the
\* handler removes it; no cancel issued by process_fragment or
\* reassemble_packet finds its timer missing; and an entry leaves the cache
\* only by reassembly, by its timeout, or by the discard of process_fragment
\* on a fragment that fits no gap.
C16_RemovedExactlyOnce ==
    [][ /\ panic' \notin {"timeout_remove", "cancel_timeout"}
        /\ ret'.op = "handle_reassembly_timeout" =>
              /\ IsSome(cache[ret'.version][ret'.key])
              /\ IsNone(cache'[ret'.version][ret'.key])
        /\ \A v \in Versions : \A k \in Keys(v) :
              (IsSome(cache[v][k]) /\ IsNone(cache'[v][k])) =>
                  /\ ret'.version = v /\ ret'.key = k
                  /\ IsSome(timers[ReassemblyTimerId(v, k)])
                  /\ IsNone(timers'[ReassemblyTimerId(v, k)])
                  /\ \/ ret'.op = "reassemble_packet" /\ ret'.why = "complete"
                     \/ ret'.op = "handle_reassembly_timeout"
                     \/ /\ ret'.op = "process_fragment"
                        /\ ret'.outcome = "InvalidFragment" /\ ret'.why = "no_gap" ]_vars

\* The timer of a complete entry that was never reassembled has fired.
C16_Witness ==
    /\ ret.op = "handle_reassembly_timeout" /\ ret.outcome = "Removed"
    /\ IsSome(ret.before) /\ ret.before.val.missing_blocks = {}
    /\ IsNone(EntryOf(ret.version, ret.key)) /\ panic = "none"

\* The cache of one version and the timers with everything but key's removed
OnlyEntry(c, key) == [k \in DOMAIN c |-> IF k = key THEN c[k] ELSE None]
OnlyTimer(t, id) == [i \in DOMAIN t |-> IF i = id THEN t[i] ELSE None]

\* What the operation the step performed returns on cache c and timers t
SameOperation(r, c, t) ==
    IF r.op = "process_fragment" THEN ProcessFragmentFn(c, t, now, r.pkt.val)
    ELSE IF r.op = "reassemble_packet" THEN ReassemblePacketFn(c, t, r.version, r.key)
    ELSE HandleReassemblyTimeoutFn(c, t, r.key)

\* C15: an operation on key K (process_fragment with any outcome,
\* reassemble_packet, the timer of K firing) leaves the entry and timer of
\* every other key as they were, and does to K's entry and returns what it
\* would with K's entry alone in the cache.
C15_OtherKeysUntouched ==
    [][ ret'.op \in {"process_fragment", "reassemble_packet", "handle_reassembly_timeout"} =>
          LET v == ret'.version
              K == ret'.key
              id == ReassemblyTimerId(v, K)
              due == IF ret'.op = "handle_reassembly_timeout" THEN None ELSE timers[id]
              alone == SameOperation(ret', OnlyEntry(cache[v], K),
                                     [OnlyTimer(timers, id) EXCEPT ![id] = due])
          IN /\ \A w \in Versions : \A k \in Keys(w) :
                   (w # v \/ k # K) =>
                       /\ cache'[w][k] = cache[w][k]
                       /\ timers'[ReassemblyTimerId(w, k)] = timers[ReassemblyTimerId(w, k)]
             /\ cache'[v][K] = alone.c[K]
             /\ timers'[id] = alone.t[id]
             /\ ret'.outcome = alone.outcome
             /\ ret'.packet_len = alone.packet_len
             /\ ret'.packet = alone.packet ]_vars

\* A fragment of one datagram rejected and its entry discarded while the other
\* datagram has an entry, which stays.
C15_Witness ==
    /\ ProcessedFragment(ret) /\ ret.outcome = "InvalidFragment" /\ ret.why = "no_gap"
    /\ IsNone(EntryOf(ret.version, ret.key))
    /\ \E k \in Keys(ret.version) :
          /\ k # ret.key
          /\ IsSome(EntryOf(ret.version, k)) /\ IsSome(TimerOf(ret.version, k))
          /\ Len(EntryOf(ret.version, k).val.body_fragments) >= 1

---------------------------------------------------------------------------
(* Both IP versions at work: fragments, path MTU updates and both timers *)

\* One datagram per version, in two fragments of one block each
VersionsPackets ==
    { Packet(v, 5, TRUE, 0, TRUE, FRAGMENT_BLOCK_SIZE) : v \in Versions }
    \cup { Packet(v, 5, TRUE, 1, FALSE, FRAGMENT_BLOCK_SIZE) : v \in Versions }

\* The clock moves in one step past every deadline
VersionsTickSteps == {PMTU_STALE_TIMEOUT}

\* The path of each version that is updated, to its minimum MTU
VersionsPath(v) == PathMtuCacheKey(LocalIp(v), RemoteIp(v))

NextVersions ==
    \/ \E pkt \in VersionsPackets : ProcessFragment(pkt.version, pkt)
    \/ \E v \in Versions : \E key \in Keys(v) : ReassemblePacket(v, key)
    \/ \E v \in Versions : \E key \in Keys(v) : ReassemblyTimeout(v, key)
    \/ Return
    \/ \E v \in Versions : UpdatePmtu(v, VersionsPath(v), min_mtu(v))
    \/ \E v \in Versions : PmtuTimer(v)
    \/ \E d \in VersionsTickSteps : PmtuTick(d)
    \/ PmtuReturn

SpecVersions == Init /\ [][NextVersions]_vars

---------------------------------------------------------------------------
(* IPv4 and IPv6 side by side: every operation is applied to both versions, *)
(* with the addresses of the version and MTUs at the same distance from the *)
(* version's minimum                                                        *)

\* The packet of version v that corresponds to pkt: same id, offset, flag, body
TwinPacket(pkt, v) == [pkt EXCEPT !.version = v, !.src_ip = RemoteIp(v), !.dst_ip = LocalIp(v)]

\* The key of version v with the fragment id of key
TwinKey(key, v) == FragmentCacheKey(RemoteIp(v), LocalIp(v), key[3])

\* The fragments offered to both versions (given as the IPv4 packet)
TwinPackets ==
    { Packet("v4", 5, TRUE, o, m, l) : o \in {0, 1, 2}, m \in BOOLEAN, l \in {7, 8} }
    \cup { Packet("v4", 5, FALSE, 0, FALSE, 7) }

\* The MTUs offered, as distances from the version's minimum
TwinMtuOffsets == {-1, 0, 50}

\* The estimates update_pmtu_next_lower starts from, as distances from the
\* version's minimum: 532 is 600 for IPv4 (plateau 508) and 1812 for IPv6
\* (plateau 1492)
TwinFromOffsets == {0, 1, 532}

\* The panic of a pair of calls: the first call's if it panicked
TwinPanic(r4, r6) == IF r4.panic # "none" THEN r4.panic ELSE r6.panic

\* What a pair of fragment cache calls leaves; the IPv4 call is recorded
TwinDone(op, key, pkt, stored, r4, r6) ==
    /\ cache' = [cache EXCEPT !["v4"] = r4.c, !["v6"] = r6.c]
    /\ timers' = r6.t
    /\ panic' = TwinPanic(r4, r6)
    /\ ret' = Returned(op, "v4", key, pkt, cache["v4"][key], r4)
    /\ accepted' = [accepted EXCEPT
                       !["v4"] = Accepted(@, r4.c, key, stored),
                       !["v6"] = Accepted(@, r6.c, TwinKey(key, "v6"), stored)]
    /\ UNCHANGED <<now, pmtu_vars>>

\* process_fragment::<_, _, Ipv4>(ctx, pkt), then process_fragment::<_, _, Ipv6>
\* on the corresponding packet
TwinProcessFragment(pkt) ==
    /\ panic = "none"
    /\ ret = Idle
    /\ pmtu_ret = PmtuIdle
    /\ LET r4 == ProcessFragmentFn(cache["v4"], timers, now, pkt)
           r6 == ProcessFragmentFn(cache["v6"], r4.t, now, TwinPacket(pkt, "v6"))
       IN TwinDone("process_fragment", FragmentCacheKey(pkt.src_ip, pkt.dst_ip, pkt.id), Some(pkt),
                   IF r4.outcome \in {"Ready", "NeedMoreFragments"} /\ r4.why = "placed"
                   THEN {Fragment(pkt)} ELSE {},
                   r4, r6)

\* reassemble_packet of both versions on corresponding keys
TwinReassemblePacket(key) ==
    /\ panic = "none"
    /\ ret = Idle
    /\ pmtu_ret = PmtuIdle
    /\ LET r4 == ReassemblePacketFn(cache["v4"], timers, "v4", key)
           r6 == ReassemblePacketFn(cache["v6"], r4.t, "v6", TwinKey(key, "v6"))
       IN TwinDone("reassemble_packet", key, None, {}, r4, r6)

\* The dispatcher delivers the due reassembly timers of corresponding keys
TwinReassemblyTimeout(key) ==
    /\ panic = "none"
    /\ ret = Idle
    /\ pmtu_ret = PmtuIdle
    /\ \A v \in Versions :
          /\ IsSome(timers[ReassemblyTimerId(v, TwinKey(key, v))])
          /\ timers[ReassemblyTimerId(v, TwinKey(key, v))].val <= now
    /\ LET r4 == HandleReassemblyTimeoutFn(
                     cache["v4"], CancelTimeout(timers, ReassemblyTimerId("v4", key)), key)
           r6 == HandleReassemblyTimeoutFn(
                     cache["v6"],
                     CancelTimeout(r4.t, ReassemblyTimerId("v6", TwinKey(key, "v6"))),
                     TwinKey(key, "v6"))
       IN TwinDone("handle_reassembly_timeout", key, None, {}, r4, r6)

\* What a pair of path MTU calls leaves; the IPv4 call is recorded
TwinPmtuDone(op, key, arg, r4, r6) ==
    /\ pmtu_cache' = [pmtu_cache EXCEPT !["v4"] = r4.cache, !["v6"] = r6.cache]
    /\ timer_scheduled' =
          [timer_scheduled EXCEPT !["v4"] = r4.timer_scheduled, !["v6"] = r6.timer_scheduled]
    /\ pmtu_timers' = [pmtu_timers EXCEPT !["v4"] = r4.timer, !["v6"] = r6.timer]
    /\ panic' = TwinPanic(r4, r6)
    /\ pmtu_ret' = PmtuReturned(op, "v4", key, arg, pmtu_cache["v4"], r4)
    /\ UNCHANGED <<cache, timers, now, ret, accepted, if_less_stored>>

\* update_pmtu of both versions, d above the version's minimum
TwinUpdatePmtu(d) ==
    /\ panic = "none"
    /\ ret = Idle
    /\ pmtu_ret = PmtuIdle
    /\ TwinPmtuDone("update_pmtu", VersionsPath("v4"), min_mtu("v4") + d,
          update_pmtu(PmtuState("v4"), now, "v4", VersionsPath("v4"), min_mtu("v4") + d),
          update_pmtu(PmtuState("v6"), now, "v6", VersionsPath("v6"), min_mtu("v6") + d))

\* update_pmtu_if_less of both versions, d above the version's minimum
TwinUpdatePmtuIfLess(d) ==
    /\ panic = "none"
    /\ ret = Idle
    /\ pmtu_ret = PmtuIdle
    /\ TwinPmtuDone("update_pmtu_if_less", VersionsPath("v4"), min_mtu("v4") + d,
          update_pmtu_if_less(PmtuState("v4"), now, "v4", VersionsPath("v4"), min_mtu("v4") + d),
          update_pmtu_if_less(PmtuState("v6"), now, "v6", VersionsPath("v6"), min_mtu("v6") + d))

\* update_pmtu_next_lower of both versions, from d above the version's minimum
TwinUpdatePmtuNextLower(d) ==
    /\ panic = "none"
    /\ ret = Idle
    /\ pmtu_ret = PmtuIdle
    /\ TwinPmtuDone("update_pmtu_next_lower", VersionsPath("v4"), min_mtu("v4") + d,
          update_pmtu_next_lower(PmtuState("v4"), now, "v4", VersionsPath("v4"), min_mtu("v4") + d),
          update_pmtu_next_lower(PmtuState("v6"), now, "v6", VersionsPath("v6"), min_mtu("v6") + d))

\* The dispatcher delivers the due maintenance timers of both versions
TwinPmtuTimer ==
    /\ panic = "none"
    /\ ret = Idle
    /\ pmtu_ret = PmtuIdle
    /\ \A v \in Versions : IsSome(pmtu_timers[v]) /\ pmtu_timers[v].val <= now
    /\ TwinPmtuDone("handle_pmtu_timer", <<>>, 0,
          handle_pmtu_timer([PmtuState("v4") EXCEPT !.timer = None], now),
          handle_pmtu_timer([PmtuState("v6") EXCEPT !.timer = None], now))

\* Time passes while no call is in progress.
TwinTick(d) ==
    /\ ret = Idle
    /\ PmtuTick(d)

NextTwin ==
    \/ \E pkt \in TwinPackets : TwinProcessFragment(pkt)
    \/ \E key \in Keys("v4") : TwinReassemblePacket(key)
    \/ \E key \in Keys("v4") : TwinReassemblyTimeout(key)
    \/ Return
    \/ \E d \in TwinMtuOffsets : TwinUpdatePmtu(d)
    \/ \E d \in TwinMtuOffsets : TwinUpdatePmtuIfLess(d)
    \/ \E d \in TwinFromOffsets : TwinUpdatePmtuNextLower(d)
    \/ TwinPmtuTimer
    \/ \E d \in PmtuTickSteps : TwinTick(d)
    \/ PmtuReturn

SpecTwin == Init /\ [][NextTwin]_vars

---------------------------------------------------------------------------
(* Properties of the path MTU cache *)

\* The entry a path MTU operation's path has in the cache of its version
PmtuEntryOf(caches, r) == caches[r.version][r.key]

\* A step in which one of the named path MTU operations runs
PmtuCalled(ops) == pmtu_ret = PmtuIdle /\ pmtu_ret'.op \in ops

\* C17: in every reachable state, whatever updates and maintenance-timer
\* firings came before, every stored entry of a version's cache has a pmtu of
\* at least that version's minimum MTU (68 for IPv4, 1280 for IPv6).
C17_PmtuAtLeastMin ==
    \A v \in Versions : \A key \in Paths(v) :
        IsSome(pmtu_cache[v][key]) => pmtu_cache[v][key].val.pmtu >= min_mtu(v)

\* C17 witness: a maintenance timer has fired and left an IPv4 entry at exactly
\* 68 while an IPv6 entry stands at exactly 1280.
C17_Witness ==
    /\ pmtu_ret.op = "handle_pmtu_timer"
    /\ pmtu_ret.result = "Swept"
    /\ \E key \in Paths("v4") :
          IsSome(pmtu_cache["v4"][key]) /\ pmtu_cache["v4"][key].val.pmtu = IPV4_MIN_MTU
    /\ \E key \in Paths("v6") :
          IsSome(pmtu_cache["v6"][key]) /\ pmtu_cache["v6"][key].val.pmtu = IPV6_MIN_MTU

\* C18: update_pmtu, and update_pmtu_if_less when it reaches update_pmtu (no
\* entry, or the new MTU below the cached one), called with a new MTU below the
\* version's minimum returns Err(prior), prior being the cached pmtu or None,
\* and changes nothing: no entry is inserted or altered and no maintenance
\* timer is scheduled.
C18_BelowMinIsErrAndNoChange ==
    [][(/\ PmtuCalled({"update_pmtu", "update_pmtu_if_less"})
        /\ pmtu_ret'.arg < min_mtu(pmtu_ret'.version)
        /\ (pmtu_ret'.op = "update_pmtu_if_less" =>
               \/ IsNone(PmtuEntryOf(pmtu_cache, pmtu_ret'))
               \/ pmtu_ret'.arg < PmtuEntryOf(pmtu_cache, pmtu_ret').val.pmtu))
       => /\ pmtu_ret'.result = "Err"
          /\ pmtu_ret'.prior = get_pmtu(pmtu_cache[pmtu_ret'.version], pmtu_ret'.key)
          /\ pmtu_cache' = pmtu_cache
          /\ timer_scheduled' = timer_scheduled
          /\ pmtu_timers' = pmtu_timers
          /\ panic' = "none"]_vars

\* C18 witness: update_pmtu on the IPv6 path with 1279 has returned Err(Some(1280)),
\* the entry still as it was stored at an earlier time.
C18_Witness ==
    /\ pmtu_ret.op = "update_pmtu"
    /\ pmtu_ret.version = "v6"
    /\ pmtu_ret.arg = IPV6_MIN_MTU - 1
    /\ pmtu_ret.result = "Err"
    /\ pmtu_ret.prior = Some(IPV6_MIN_MTU)
    /\ PmtuEntryOf(pmtu_cache, pmtu_ret) = pmtu_ret.before
    /\ pmtu_ret.before.val.last_updated < now

\* C19: update_pmtu with a new MTU of at least the version's minimum succeeds:
\* it returns Ok(prior) (Ok(None) when the path had no entry), afterwards
\* get_pmtu of the path is the new MTU, also when that is greater than the
\* prior value, last_updated is the current time, and the entries of all
\* other paths are as they were.
C19_UpdateReplacesEntry ==
    [][(/\ PmtuCalled({"update_pmtu"})
        /\ pmtu_ret'.arg >= min_mtu(pmtu_ret'.version))
       => /\ pmtu_ret'.result = "Ok"
          /\ panic' = "none"
          /\ pmtu_ret'.prior = get_pmtu(pmtu_cache[pmtu_ret'.version], pmtu_ret'.key)
          /\ get_pmtu(pmtu_cache'[pmtu_ret'.version], pmtu_ret'.key) = Some(pmtu_ret'.arg)
          /\ get_last_updated(pmtu_cache'[pmtu_ret'.version], pmtu_ret'.key) = Some(now)
          /\ \A v \in Versions : \A key \in Paths(v) :
                (v # pmtu_ret'.version \/ key # pmtu_ret'.key)
                   => pmtu_cache'[v][key] = pmtu_cache[v][key]]_vars

\* C19 witness: update_pmtu has raised an IPv4 path from 68 to 118 at a time
\* later than the entry's last update, the other IPv4 path having an entry.
C19_Witness ==
    /\ pmtu_ret.op = "update_pmtu"
    /\ pmtu_ret.version = "v4"
    /\ pmtu_ret.result = "Ok"
    /\ pmtu_ret.prior = Some(IPV4_MIN_MTU)
    /\ pmtu_ret.arg > IPV4_MIN_MTU
    /\ pmtu_ret.before.val.last_updated < now
    /\ PmtuEntryOf(pmtu_cache, pmtu_ret) = Some(PathMtuCacheData(pmtu_ret.arg, now))
    /\ \E key \in Paths("v4") : key # pmtu_ret.key /\ IsSome(pmtu_cache["v4"][key])

\* C20: update_pmtu_if_less on a path whose entry has pmtu <= new_mtu returns
\* Ok(Some(pmtu)) and leaves the entry's pmtu and last_updated as they were;
\* with no entry, or with new_mtu below the entry's pmtu, its return value and
\* the state it leaves are those of update_pmtu on the same arguments.
C20_IfLessKeepsOrUpdates ==
    [][PmtuCalled({"update_pmtu_if_less"})
       => LET v == pmtu_ret'.version
              key == pmtu_ret'.key
              entry == pmtu_cache[v][key]
          IN IF IsSome(entry) /\ entry.val.pmtu <= pmtu_ret'.arg
             THEN /\ pmtu_ret'.result = "Ok"
                  /\ pmtu_ret'.prior = Some(entry.val.pmtu)
                  /\ pmtu_cache'[v][key] = entry
             ELSE LET r == update_pmtu(PmtuState(v), now, v, key, pmtu_ret'.arg)
                  IN /\ pmtu_ret'.result = r.result
                     /\ pmtu_ret'.prior = r.prior
                     /\ pmtu_cache' = [pmtu_cache EXCEPT ![v] = r.cache]
                     /\ timer_scheduled' = [timer_scheduled EXCEPT ![v] = r.timer_scheduled]
                     /\ pmtu_timers' = [pmtu_timers EXCEPT ![v] = r.timer]
                     /\ panic' = r.panic]_vars

\* C20 witness: update_pmtu_if_less with 118 on an IPv4 path cached at 68 some
\* time ago has returned Ok(Some(68)) and the entry keeps its old last_updated.
C20_Witness ==
    /\ pmtu_ret.op = "update_pmtu_if_less"
    /\ pmtu_ret.version = "v4"
    /\ pmtu_ret.arg = IPV4_MIN_MTU + 50
    /\ pmtu_ret.result = "Ok"
    /\ pmtu_ret.prior = Some(IPV4_MIN_MTU)
    /\ PmtuEntryOf(pmtu_cache, pmtu_ret) = pmtu_ret.before
    /\ pmtu_ret.before.val.last_updated < now

\* C21 (as claimed): for a fixed path, the pmtu values stored after successive
\* update_pmtu_if_less calls never increase from one call to the next.
C21_IfLessNeverRaises ==
    [][PmtuCalled({"update_pmtu_if_less"})
       => LET v == pmtu_ret'.version
              key == pmtu_ret'.key
          IN (IsSome(if_less_stored[v][key]) /\ IsSome(pmtu_cache'[v][key]))
                => pmtu_cache'[v][key].val.pmtu <= if_less_stored[v][key].val]_vars

\* C21 (amended): for a fixed path, an update_pmtu_if_less call on a path that
\* still has the entry the previous call left leaves a pmtu no greater than
\* that call left, and every value a call leaves stored is at least the
\* version's minimum; a call on a path whose entry the maintenance sweep has
\* evicted stores its new MTU whatever was stored before.
C21_IfLessNeverRaisesKeptEntry ==
    [][PmtuCalled({"update_pmtu_if_less"})
       => LET v == pmtu_ret'.version
              key == pmtu_ret'.key
          IN /\ IsSome(pmtu_cache[v][key])
                   => /\ if_less_stored[v][key] = Some(pmtu_cache[v][key].val.pmtu)
                      /\ IsSome(pmtu_cache'[v][key])
                      /\ pmtu_cache'[v][key].val.pmtu <= if_less_stored[v][key].val
             /\ IsSome(pmtu_cache'[v][key]) => pmtu_cache'[v][key].val.pmtu >= min_mtu(v)
             /\ (IsNone(pmtu_cache[v][key]) /\ pmtu_ret'.arg >= min_mtu(v))
                   => get_pmtu(pmtu_cache'[v], key) = Some(pmtu_ret'.arg)]_vars

\* C21 witness: update_pmtu_if_less has lowered an IPv4 path from 118 to 68,
\* the path having been stored at 118 by an earlier call.
C21_Witness ==
    /\ pmtu_ret.op = "update_pmtu_if_less"
    /\ pmtu_ret.version = "v4"
    /\ pmtu_ret.prior = Some(IPV4_MIN_MTU + 50)
    /\ pmtu_ret.arg = IPV4_MIN_MTU
    /\ pmtu_ret.result = "Ok"
    /\ get_pmtu(pmtu_cache["v4"], pmtu_ret.key) = Some(IPV4_MIN_MTU)
    /\ if_less_stored["v4"][pmtu_ret.key] = Some(IPV4_MIN_MTU)

\* The plateau values as a set
PlateauSet == {PMTU_PLATEAUS[i] : i \in DOMAIN PMTU_PLATEAUS}

\* C22: after update_pmtu_next_lower(src, dst, x) returns Ok, the value v
\* stored for the path satisfies v < x, v is a plateau, and no plateau lies
\* strictly between v and x.
C22_NextLowerStoresNextPlateau ==
    [][(PmtuCalled({"update_pmtu_next_lower"}) /\ pmtu_ret'.result = "Ok")
       => LET stored == PmtuEntryOf(pmtu_cache', pmtu_ret')
              x == pmtu_ret'.arg
          IN /\ IsSome(stored)
             /\ stored.val.pmtu < x
             /\ stored.val.pmtu \in PlateauSet
             /\ ~ \E p \in PlateauSet : stored.val.pmtu < p /\ p < x]_vars

\* C23: update_pmtu_next_lower(src, dst, from) returns Ok((a, b)) only when a
\* plateau b below from exists that is at least the version's minimum MTU and
\* (the path having an estimate a) is less than a; in every other case it
\* returns Err(a); a is the path's estimate before the call.
C23_NextLowerOkOnlyWhenLowered ==
    [][PmtuCalled({"update_pmtu_next_lower"})
       => LET a == get_pmtu(pmtu_cache[pmtu_ret'.version], pmtu_ret'.key)
              lowered == \E b \in PlateauSet :
                            /\ b < pmtu_ret'.arg
                            /\ b >= min_mtu(pmtu_ret'.version)
                            /\ IsSome(a) => b < a.val
                            /\ pmtu_ret'.next = Some(b)
          IN /\ pmtu_ret'.result \in {"Ok", "Err"}
             /\ pmtu_ret'.prior = a
             /\ pmtu_ret'.result = "Ok" => lowered]_vars

\* C24: when the maintenance timer of a version fires at time now, exactly the
\* entries with now - last_updated >= PMTU_STALE_TIMEOUT are evicted and every
\* other entry is retained with its pmtu and last_updated; so an entry is gone
\* after the first sweep at or after last_updated + 3 h and present after
\* every earlier one.
C24_SweepEvictsExactlyStale ==
    [][PmtuCalled({"handle_pmtu_timer"})
       => \A key \in Paths(pmtu_ret'.version) :
             LET entry == pmtu_cache[pmtu_ret'.version][key]
             IN pmtu_cache'[pmtu_ret'.version][key] =
                   IF IsSome(entry) /\ now - entry.val.last_updated >= PMTU_STALE_TIMEOUT
                   THEN None ELSE entry]_vars

\* C24 witness: the IPv4 sweep at time 10800 has run; one path, updated at a
\* later time than 0, is retained and the other path has no entry.
C24_Witness ==
    /\ pmtu_ret.op = "handle_pmtu_timer"
    /\ pmtu_ret.version = "v4"
    /\ pmtu_ret.result = "Swept"
    /\ now = PMTU_STALE_TIMEOUT
    /\ \E key \in Paths("v4") :
          /\ IsSome(pmtu_cache["v4"][key])
          /\ pmtu_cache["v4"][key].val.last_updated = MAINTENANCE_PERIOD
          /\ \E other \in Paths("v4") : other # key /\ IsNone(pmtu_cache["v4"][other])

\* The assertions of the path MTU cache: create_maintenance_timer's (the flag
\* is false, the dispatcher had no maintenance timer) and handle_pmtu_timer's
\* (the flag is true)
PmtuTimerAssertions == {"maintenance_scheduled", "schedule_timer", "timer_not_scheduled"}

\* C25: at any instant at most one maintenance timer per version is pending
\* (the dispatcher holds one deadline per PmtuTimerId and never had one to
\* replace), timer_scheduled of a version is true exactly when its timer is
\* pending, and none of the assertions of create_maintenance_timer and
\* handle_pmtu_timer has failed.
C25_FlagIffTimerPending ==
    /\ panic \notin PmtuTimerAssertions
    /\ \A v \in Versions : timer_scheduled[v] <=> IsSome(pmtu_timers[v])

\* C25 witness: a sweep has rescheduled the IPv4 timer (flag set, one deadline
\* an hour ahead) while IPv6 has neither flag nor timer.
C25_Witness ==
    /\ pmtu_ret.op = "handle_pmtu_timer"
    /\ pmtu_ret.version = "v4"
    /\ timer_scheduled["v4"]
    /\ pmtu_timers["v4"] = Some(now + MAINTENANCE_PERIOD)
    /\ ~timer_scheduled["v6"]
    /\ IsNone(pmtu_timers["v6"])

\* C26: in every state between operations, the path MTU cache of a version is
\* non-empty exactly when a maintenance timer of that version is pending.
C26_NonEmptyIffTimerPending ==
    \A v \in Versions : ~IsEmpty(pmtu_cache[v]) <=> IsSome(pmtu_timers[v])

\* C26 witness: a sweep has emptied the IPv4 cache and left no IPv4 timer,
\* while the IPv6 cache holds an entry and its timer is pending.
C26_Witness ==
    /\ pmtu_ret.op = "handle_pmtu_timer"
    /\ pmtu_ret.version = "v4"
    /\ IsEmpty(pmtu_cache["v4"])
    /\ IsNone(pmtu_timers["v4"])
    /\ ~IsEmpty(pmtu_cache["v6"])
    /\ IsSome(pmtu_timers["v6"])

\* C27: after handle_pmtu_timer completes, one maintenance timer due
\* MAINTENANCE_PERIOD later is pending if the cache is still non-empty and
\* none is pending if the sweep emptied it; an accepted update_pmtu on an
\* empty cache schedules the timer MAINTENANCE_PERIOD after that update.
C27_SweepReschedulesIffNonEmpty ==
    [][/\ PmtuCalled({"handle_pmtu_timer"})
          => pmtu_timers'[pmtu_ret'.version] =
                IF IsEmpty(pmtu_cache'[pmtu_ret'.version]) THEN None
                ELSE Some(now + MAINTENANCE_PERIOD)
       /\ (/\ PmtuCalled({"update_pmtu"})
           /\ pmtu_ret'.result = "Ok"
           /\ IsEmpty(pmtu_cache[pmtu_ret'.version]))
          => /\ IsNone(pmtu_timers[pmtu_ret'.version])
             /\ pmtu_timers'[pmtu_ret'.version] = Some(now + MAINTENANCE_PERIOD)]_vars

\* C27 witness: the IPv6 sweep has emptied the IPv6 cache and left no IPv6
\* timer, while the IPv4 cache holds an entry and its timer is due an hour
\* from now.
C27_Witness ==
    /\ pmtu_ret.op = "handle_pmtu_timer"
    /\ pmtu_ret.version = "v6"
    /\ pmtu_ret.result = "Swept"
    /\ IsEmpty(pmtu_cache["v6"])
    /\ pmtu_timers["v6"] = None
    /\ ~timer_scheduled["v6"]
    /\ ~IsEmpty(pmtu_cache["v4"])
    /\ pmtu_timers["v4"] = Some(now + MAINTENANCE_PERIOD)

\* C28: an accepted update (update_pmtu, update_pmtu_if_less,
\* update_pmtu_next_lower returning Ok) on a cache that already holds an entry
\* schedules no timer and leaves the pending maintenance timer's deadline,
\* whether it modifies an entry or inserts a new path.
C28_UpdateKeepsPendingTimer ==
    [][(/\ PmtuCalled({"update_pmtu", "update_pmtu_if_less", "update_pmtu_next_lower"})
        /\ pmtu_ret'.result = "Ok"
        /\ ~IsEmpty(pmtu_cache[pmtu_ret'.version]))
       => /\ IsSome(pmtu_timers[pmtu_ret'.version])
          /\ pmtu_timers' = pmtu_timers
          /\ timer_scheduled' = timer_scheduled]_vars

\* C28 witness: update_pmtu has inserted a second IPv4 path an hour or more
\* after the first; the pending timer is still the one due before now + 1 h.
C28_Witness ==
    /\ pmtu_ret.op = "update_pmtu"
    /\ pmtu_ret.version = "v4"
    /\ pmtu_ret.result = "Ok"
    /\ pmtu_ret.prior = None
    /\ \E key \in Paths("v4") :
          /\ key # pmtu_ret.key
          /\ IsSome(pmtu_cache["v4"][key])
          /\ pmtu_cache["v4"][key].val.last_updated < now
    /\ IsSome(pmtu_timers["v4"])
    /\ pmtu_timers["v4"].val < now + MAINTENANCE_PERIOD

\* C29: the clock never going back, every entry's last_updated is at most the
\* current time, so the sweep never calls duration_since with a later
\* instant, and for a fixed path the last_updated of its entry never
\* decreases from one accepted update to the next.
C29_LastUpdatedMonotone ==
    [][/\ now' >= now
       /\ panic' # "duration_since"
       /\ \A v \in Versions : \A key \in Paths(v) :
             IsSome(pmtu_cache'[v][key])
                => /\ pmtu_cache'[v][key].val.last_updated <= now'
                   /\ IsSome(pmtu_cache[v][key])
                         => pmtu_cache'[v][key].val.last_updated
                               >= pmtu_cache[v][key].val.last_updated]_vars

\* C29 witness: a sweep has run at a time later than 0 over an entry updated
\* at that very time (duration zero) and another updated earlier.
C29_Witness ==
    /\ pmtu_ret.op = "handle_pmtu_timer"
    /\ pmtu_ret.version = "v4"
    /\ pmtu_ret.result = "Swept"
    /\ now > 0
    /\ \E key, other \in Paths("v4") :
          /\ IsSome(pmtu_cache["v4"][key])
          /\ pmtu_cache["v4"][key].val.last_updated = now
          /\ IsSome(pmtu_cache["v4"][other])
          /\ pmtu_cache["v4"][other].val.last_updated < now

\* Everything one IP version owns: its fragment cache, its reassembly timers,
\* its path MTU cache, its timer_scheduled flag and its maintenance timer
VersionState(v) ==
    [cache |-> cache[v],
     timers |-> [key \in Keys(v) |-> timers[ReassemblyTimerId(v, key)]],
     pmtu_cache |-> pmtu_cache[v],
     timer_scheduled |-> timer_scheduled[v],
     pmtu_timers |-> pmtu_timers[v]]

\* A step in which an operation or timer callback of version v runs
RunsFor(v) ==
    \/ ret = Idle /\ ret' # Idle /\ ret'.version = v
    \/ pmtu_ret = PmtuIdle /\ pmtu_ret' # PmtuIdle /\ pmtu_ret'.version = v

\* A step in which a timer of version v leaves the dispatcher by firing
Fires(v) ==
    \/ \E key \in Keys(v) :
          /\ IsSome(timers[ReassemblyTimerId(v, key)])
          /\ IsNone(timers'[ReassemblyTimerId(v, key)])
          /\ ret'.op = "handle_reassembly_timeout"
    \/ /\ IsSome(pmtu_timers[v])
       /\ pmtu_timers'[v] # pmtu_timers[v]
       /\ pmtu_ret = PmtuIdle
       /\ pmtu_ret'.op = "handle_pmtu_timer"

\* C30: the two versions are independent: an operation or timer callback of
\* one version leaves the other version's fragment cache, reassembly timers,
\* path MTU cache, timer_scheduled flag and maintenance timer unchanged, and a
\* reassembly or maintenance timer scheduled by one version is delivered to
\* that version's cache only.
C30_VersionsIndependent ==
    [][\A v \in Versions :
          /\ VersionState(v)' # VersionState(v) => RunsFor(v)
          /\ RunsFor(v) => VersionState(OtherVersion(v))' = VersionState(OtherVersion(v))
          /\ Fires(v) => RunsFor(v)]_vars

\* C30 witness: the IPv6 maintenance timer has fired and been rescheduled
\* while IPv4 holds a fragment entry with its reassembly timer, a path MTU
\* entry and its own maintenance timer with another deadline.
C30_Witness ==
    /\ pmtu_ret.op = "handle_pmtu_timer"
    /\ pmtu_ret.version = "v6"
    /\ pmtu_timers["v6"] = Some(now + MAINTENANCE_PERIOD)
    /\ IsSome(pmtu_timers["v4"])
    /\ pmtu_timers["v4"] # pmtu_timers["v6"]
    /\ ~IsEmpty(pmtu_cache["v4"])
    /\ \E key \in Keys("v4") :
          IsSome(cache["v4"][key]) /\ IsSome(timers[ReassemblyTimerId("v4", key)])
    /\ \E key \in Keys("v6") : IsSome(cache["v6"][key])

---------------------------------------------------------------------------
(* IPv4 and IPv6 compared *)

\* The length of the header get_header captures for a version
HeaderLen(v) == IF v = "v4" THEN IPV4_HEADER_LEN ELSE IPV6_HEADER_LEN

\* An IPv4 and an IPv6 fragment cache entry correspond: same gaps, same body
\* fragments, a header captured in both or in neither, the same size apart
\* from the header
CorrEntry(e4, e6) ==
    IF IsNone(e4) \/ IsNone(e6) THEN e4 = e6
    ELSE /\ e4.val.missing_blocks = e6.val.missing_blocks
         /\ e4.val.body_fragments = e6.val.body_fragments
         /\ IsSome(e4.val.header) <=> IsSome(e6.val.header)
         /\ IsSome(e4.val.header) =>
               /\ Len(e4.val.header.val) = HeaderLen("v4")
               /\ Len(e6.val.header.val) = HeaderLen("v6")
               /\ e4.val.total_size - HeaderLen("v4") = e6.val.total_size - HeaderLen("v6")
         /\ IsNone(e4.val.header) => e4.val.total_size = e6.val.total_size

\* An IPv4 and an IPv6 MTU correspond: both absent, or at the same distance
\* from the version's minimum
CorrMtu(m4, m6) ==
    IF IsNone(m4) \/ IsNone(m6) THEN m4 = m6
    ELSE m4.val - min_mtu("v4") = m6.val - min_mtu("v6")

\* The two versions are in corresponding states
CorrState ==
    /\ \A key \in Keys("v4") :
          /\ CorrEntry(cache["v4"][key], cache["v6"][TwinKey(key, "v6")])
          /\ timers[ReassemblyTimerId("v4", key)]
                = timers[ReassemblyTimerId("v6", TwinKey(key, "v6"))]
    /\ CorrMtu(get_pmtu(pmtu_cache["v4"], VersionsPath("v4")),
               get_pmtu(pmtu_cache["v6"], VersionsPath("v6")))
    /\ get_last_updated(pmtu_cache["v4"], VersionsPath("v4"))
          = get_last_updated(pmtu_cache["v6"], VersionsPath("v6"))
    /\ timer_scheduled["v4"] = timer_scheduled["v6"]
    /\ pmtu_timers["v4"] = pmtu_timers["v6"]

\* A step in which a fragment cache operation runs on both versions
TwinCalled == ret = Idle /\ ret' # Idle

\* A step in which a path MTU operation runs on both versions
TwinPmtuCalled == pmtu_ret = PmtuIdle /\ pmtu_ret' # PmtuIdle

\* What the IPv6 call of the step returns and leaves (the IPv4 call is the
\* one recorded in ret')
TwinResult ==
    LET key6 == TwinKey(ret'.key, "v6")
    IN IF ret'.op = "process_fragment"
       THEN ProcessFragmentFn(cache["v6"], timers, now, TwinPacket(ret'.pkt.val, "v6"))
       ELSE IF ret'.op = "reassemble_packet"
       THEN ReassemblePacketFn(cache["v6"], timers, "v6", key6)
       ELSE HandleReassemblyTimeoutFn(
                cache["v6"], CancelTimeout(timers, ReassemblyTimerId("v6", key6)), key6)

\* The fragment cache calls of the step return the same on both versions
TwinSameOutcome ==
    /\ TwinResult.outcome = ret'.outcome
    /\ TwinResult.why = ret'.why
    /\ ret'.outcome = "Ready" =>
          TwinResult.packet_len - HeaderLen("v6") = ret'.packet_len - HeaderLen("v4")
    /\ TwinResult.c = cache'["v6"]

\* What the IPv6 path MTU call of the step returns and leaves
TwinPmtuResult ==
    LET arg6 == min_mtu("v6") + (pmtu_ret'.arg - min_mtu("v4"))
    IN IF pmtu_ret'.op = "update_pmtu"
       THEN update_pmtu(PmtuState("v6"), now, "v6", VersionsPath("v6"), arg6)
       ELSE IF pmtu_ret'.op = "update_pmtu_if_less"
       THEN update_pmtu_if_less(PmtuState("v6"), now, "v6", VersionsPath("v6"), arg6)
       ELSE IF pmtu_ret'.op = "update_pmtu_next_lower"
       THEN update_pmtu_next_lower(PmtuState("v6"), now, "v6", VersionsPath("v6"), arg6)
       ELSE handle_pmtu_timer([PmtuState("v6") EXCEPT !.timer = None], now)

\* The path MTU calls of the step return the same on both versions
TwinPmtuSameOutcome ==
    /\ TwinPmtuResult.result = pmtu_ret'.result
    /\ CorrMtu(pmtu_ret'.prior, TwinPmtuResult.prior)
    /\ CorrMtu(pmtu_ret'.next, TwinPmtuResult.next)
    /\ TwinPmtuResult.cache = pmtu_cache'["v6"]

\* reassemble_packet is called on an entry with no missing blocks
TwinReassemblesComplete ==
    /\ ret'.op = "reassemble_packet"
    /\ IsSome(cache["v4"][ret'.key])
    /\ cache["v4"][ret'.key].val.missing_blocks = {}

\* The plateaus below the two start values lie at the same distance from the
\* versions' minima, or neither version has a plateau it accepts
PlateausCorrespond(d) ==
    LET p4 == next_lower_pmtu_plateau(min_mtu("v4") + d)
        p6 == next_lower_pmtu_plateau(min_mtu("v6") + d)
        ok4 == IsSome(p4) /\ p4.val >= min_mtu("v4")
        ok6 == IsSome(p6) /\ p6.val >= min_mtu("v6")
    IN IF ok4 /\ ok6 THEN CorrMtu(p4, p6) ELSE ~ok4 /\ ~ok6

\* update_pmtu_next_lower is called from start values whose plateaus differ
TwinPlateausDiffer ==
    /\ pmtu_ret'.op = "update_pmtu_next_lower"
    /\ ~PlateausCorrespond(pmtu_ret'.arg - min_mtu("v4"))

\* The comparison of update_pmtu_next_lower is made where the plateau table,
\* which is one for both versions, gives corresponding plateaus.

\* C31 (as claimed): the fragment cache and the path MTU cache behave the
\* same for IPv4 and IPv6 up to the version's constants: from corresponding
\* states, the same operation (addresses renamed, MTUs shifted by the
\* difference of the minima) returns the same outcome and leaves corresponding
\* states, reassemble_packet on a complete entry included.
C31_VersionsBehaveAlike ==
    [][/\ (CorrState /\ TwinCalled) => (TwinSameOutcome /\ CorrState')
       /\ (CorrState /\ TwinPmtuCalled /\ ~TwinPlateausDiffer)
             => (TwinPmtuSameOutcome /\ CorrState')]_vars

\* C31 (amended): the same, except for reassemble_packet on a complete entry,
\* where IPv4 returns the datagram and IPv6 stops at unimplemented!.
C31_VersionsBehaveAlikeButReassembly ==
    [][/\ (CorrState /\ TwinCalled /\ ~TwinReassemblesComplete)
             => (TwinSameOutcome /\ CorrState')
       /\ (CorrState /\ TwinPmtuCalled /\ ~TwinPlateausDiffer)
             => (TwinPmtuSameOutcome /\ CorrState')]_vars

\* C31 witness: process_fragment has returned Ready on both versions, both
\* holding the complete datagram, while both path MTU caches hold an entry 50
\* above the version's minimum and time has passed.
C31_Witness ==
    /\ ret.op = "process_fragment"
    /\ ret.outcome = "Ready"
    /\ CorrState
    /\ IsSome(cache["v6"][TwinKey(ret.key, "v6")])
    /\ cache["v6"][TwinKey(ret.key, "v6")].val.missing_blocks = {}
    /\ get_pmtu(pmtu_cache["v4"], VersionsPath("v4")) = Some(IPV4_MIN_MTU + 50)
    /\ get_pmtu(pmtu_cache["v6"], VersionsPath("v6")) = Some(IPV6_MIN_MTU + 50)
    /\ now > 0

---------------------------------------------------------------------------
(* Further properties of the fragment cache *)

\* The fragments of S have pairwise disjoint block ranges whose union is
\* [0, L], L the last block of a fragment of S with more == false
DisjointCover(S) ==
    /\ \A f, g \in S : f # g => ~SharesBlock(f, g)
    /\ \E f \in S :
          /\ ~f.m_flag
          /\ \A g \in S : LastBlock(g) <= LastBlock(f)
          /\ SumBlocks(S) = LastBlock(f) + 1

\* process_fragment has stored the fragment it was given
StoredFragment(r) == ProcessedFragment(r) /\ r.why = "placed"

\* C32: process_fragment returns Ready for a key exactly when, after the
\* update, the accepted fragments of the key's entry have pairwise disjoint
\* block ranges whose union is [0, L], L the last block of the single accepted
\* fragment with more == false.
C32_ReadyIffExactCover ==
    StoredFragment(ret) =>
        LET S == accepted[ret.version][ret.key]
        IN ret.outcome = "Ready"
             <=> (DisjointCover(S) /\ Cardinality({ f \in S : ~f.m_flag }) = 1)

\* The same with any number of accepted more == false fragments, L the
\* greatest last block among them.
ReadyIffDisjointCover ==
    StoredFragment(ret) =>
        (ret.outcome = "Ready" <=> DisjointCover(accepted[ret.version][ret.key]))

\* C33: when process_fragment returns InvalidFragment for a fragment whose key
\* had no entry before the call, the key has no entry after the call and no
\* reassembly timer is pending for it.
C33_RejectedStartsNothing ==
    (ProcessedFragment(ret) /\ ret.outcome = "InvalidFragment" /\ IsNone(ret.before)) =>
        /\ IsNone(EntryOf(ret.version, ret.key))
        /\ IsNone(TimerOf(ret.version, ret.key))

\* Fragment f has a block beyond the last block of a more == false fragment of S
BeyondLast(f, S) == \E g \in S : ~g.m_flag /\ LastBlock(f) > LastBlock(g)

\* C34: once a more == false fragment ending at block L has been accepted for
\* a key, a later well-formed fragment for the key with a block greater than L
\* is answered InvalidFragment and the key's entry is discarded with its
\* timer, so that reassemble_packet for the key then returns InvalidKey; the
\* same for an entry that is already complete.
C34_BeyondLastDiscards ==
    [][(ret = Idle /\ ProcessedFragment(ret')
          /\ WellFormed(Fragment(ret'.pkt.val))
          /\ BeyondLast(Fragment(ret'.pkt.val), accepted[ret'.version][ret'.key]))
        => /\ ret'.outcome = "InvalidFragment"
           /\ IsNone(cache'[ret'.version][ret'.key])
           /\ IsNone(timers'[ReassemblyTimerId(ret'.version, ret'.key)])
           /\ ReassemblePacketFn(cache'[ret'.version], timers', ret'.version, ret'.key).outcome
                 = "InvalidKey"]_vars

\* C35: returning Ready leaves the reassembly timer pending with its deadline;
\* when the timer of a complete entry fires before reassemble_packet is
\* called, the entry is removed and reassemble_packet for the key returns
\* InvalidKey; a pending timer leaves the dispatcher only by firing, by
\* reassemble_packet on a complete entry, or by the discard of
\* process_fragment on a fragment that fits no gap.
C35_ReadyKeepsTimer ==
    [][ /\ (ret = Idle /\ ProcessedFragment(ret') /\ ret'.outcome = "Ready") =>
              /\ IsSome(ret'.before)
              /\ IsSome(timers[ReassemblyTimerId(ret'.version, ret'.key)])
              /\ timers'[ReassemblyTimerId(ret'.version, ret'.key)]
                    = timers[ReassemblyTimerId(ret'.version, ret'.key)]
        /\ (/\ ret = Idle /\ ret'.op = "handle_reassembly_timeout"
            /\ IsSome(ret'.before) /\ ret'.before.val.missing_blocks = {}) =>
              /\ IsNone(cache'[ret'.version][ret'.key])
              /\ ReassemblePacketFn(cache'[ret'.version], timers', ret'.version, ret'.key).outcome
                    = "InvalidKey"
        /\ \A v \in Versions : \A k \in Keys(v) :
              (IsSome(timers[ReassemblyTimerId(v, k)]) /\ IsNone(timers'[ReassemblyTimerId(v, k)])) =>
                  /\ ret'.version = v /\ ret'.key = k
                  /\ \/ ret'.op = "handle_reassembly_timeout"
                     \/ /\ ret'.op = "reassemble_packet"
                        /\ cache[v][k].val.missing_blocks = {}
                     \/ /\ ret'.op = "process_fragment"
                        /\ ret'.outcome = "InvalidFragment" /\ ret'.why = "no_gap" ]_vars

\* C35 witness: Ready was returned for the key, nobody called
\* reassemble_packet, and the timer has now fired 60 s or more after the
\* entry was created: the entry is gone and reassemble_packet returns
\* InvalidKey.
C35_Witness ==
    /\ ret.op = "handle_reassembly_timeout"
    /\ IsSome(ret.before)
    /\ ret.before.val.missing_blocks = {}
    /\ Len(ret.before.val.body_fragments) >= 2
    /\ now >= REASSEMBLY_TIMEOUT_SECONDS
    /\ IsNone(TimerOf(ret.version, ret.key))
    /\ ReassemblePacketFn(cache[ret.version], timers, ret.version, ret.key).outcome = "InvalidKey"

---------------------------------------------------------------------------
(* Both caches under fair delivery of timers.  Entries are created only   *)
(* while the clock can still reach the time by which they must be gone.   *)

MaxFairTime == 21600

\* One IPv4 datagram in fragments at blocks 0, 1 and 3
FairPackets ==
    { Packet("v4", 5, TRUE, 0, TRUE, 8),
      Packet("v4", 5, TRUE, 1, FALSE, 7),
      Packet("v4", 5, TRUE, 3, FALSE, 7) }

\* process_fragment, early enough for the reassembly timer to fall due
FairProcessFragment(pkt) ==
    /\ now + REASSEMBLY_TIMEOUT_SECONDS <= MaxTime
    /\ ProcessFragment(pkt.version, pkt)

\* update_pmtu, early enough for the entry to become stale and be swept
FairUpdatePmtu(new_mtu) ==
    /\ now + PMTU_STALE_TIMEOUT + 2 * MAINTENANCE_PERIOD <= MaxFairTime
    /\ UpdatePmtu("v4", VersionsPath("v4"), new_mtu)

\* A maintenance period passes while no call is in progress.
FairHour ==
    /\ panic = "none"
    /\ pmtu_ret = PmtuIdle
    /\ now + MAINTENANCE_PERIOD <= MaxFairTime
    /\ now' = now + MAINTENANCE_PERIOD
    /\ UNCHANGED <<cache, timers, panic, ret, accepted, pmtu_vars>>

NextFair ==
    \/ \E pkt \in FairPackets : FairProcessFragment(pkt)
    \/ \E key \in Keys("v4") : ReassemblePacket("v4", key)
    \/ \E key \in Keys("v4") : ReassemblyTimeout("v4", key)
    \/ \E d \in TickSteps : Tick(d)
    \/ Return
    \/ \E new_mtu \in NewMtus("v4") : FairUpdatePmtu(new_mtu)
    \/ PmtuTimer("v4")
    \/ FairHour
    \/ PmtuReturn

\* The dispatcher delivers every timer that is due, the clock advances, and
\* every call returns to its caller.
Fairness ==
    /\ \A key \in Keys("v4") : SF_vars(ReassemblyTimeout("v4", key))
    /\ SF_vars(PmtuTimer("v4"))
    /\ SF_vars(FairHour)
    /\ WF_vars(Return)
    /\ WF_vars(PmtuReturn)

SpecFair == Init /\ [][NextFair]_vars /\ Fairness

---------------------------------------------------------------------------
(* The path MTU cache with its maintenance timer delivered on time *)

MaxOnTime == 16200

\* The clock moves in half maintenance periods
OnTimeStep == 1800

\* Time passes up to the deadline of the next maintenance timer, not beyond.
OnTimeTick ==
    /\ panic = "none"
    /\ pmtu_ret = PmtuIdle
    /\ now + OnTimeStep <= MaxOnTime
    /\ \A v \in Versions : IsSome(pmtu_timers[v]) => now + OnTimeStep <= pmtu_timers[v].val
    /\ now' = now + OnTimeStep
    /\ UNCHANGED <<cache, timers, panic, ret, accepted, pmtu_vars>>

NextOnTime ==
    \/ \E key \in Paths("v4") : \E new_mtu \in NewMtus("v4") : UpdatePmtu("v4", key, new_mtu)
    \/ PmtuTimer("v4")
    \/ OnTimeTick
    \/ PmtuReturn

SpecOnTime == Init /\ [][NextOnTime]_vars

\* C37: with maintenance timers delivered on time, every entry in the path
\* MTU cache is younger than PMTU_STALE_TIMEOUT + MAINTENANCE_PERIOD (4 h), and
\* every entry a sweep evicts has an age of at least PMTU_STALE_TIMEOUT (3 h)
\* and less than 4 h.
C37_EvictedBetweenThreeAndFourHours ==
    /\ \A key \in Paths("v4") :
          IsSome(pmtu_cache["v4"][key]) =>
              now - pmtu_cache["v4"][key].val.last_updated < PMTU_STALE_TIMEOUT + MAINTENANCE_PERIOD
    /\ \A t \in pmtu_ret.evicted :
          /\ pmtu_ret.op = "handle_pmtu_timer"
          /\ now - t >= PMTU_STALE_TIMEOUT
          /\ now - t < PMTU_STALE_TIMEOUT + MAINTENANCE_PERIOD

\* C37 witness: a sweep has evicted an entry at an age strictly between 3 h
\* and 4 h and has kept an entry younger than 3 h.
C37_Witness ==
    /\ pmtu_ret.op = "handle_pmtu_timer"
    /\ \E t \in pmtu_ret.evicted : now - t > PMTU_STALE_TIMEOUT
    /\ \E key \in Paths("v4") :
          /\ IsSome(pmtu_cache["v4"][key])
          /\ now - pmtu_cache["v4"][key].val.last_updated < PMTU_STALE_TIMEOUT

---------------------------------------------------------------------------
(* Further properties of the path MTU cache *)

\* update_pmtu_next_lower from start_mtu has no plateau version v accepts:
\* none is below start_mtu, or the next one is below the version's minimum
NoUsablePlateau(v, start_mtu) ==
    \/ IsNone(next_lower_pmtu_plateau(start_mtu))
    \/ next_lower_pmtu_plateau(start_mtu).val < min_mtu(v)

\* C38: when update_pmtu_next_lower finds no plateau below from, or the next
\* lower plateau is below the version's minimum MTU, it returns Err with the
\* path's estimate before the call, and the cache, the timer_scheduled flag
\* and the timers are unchanged.
C38_NextLowerErrChangesNothing ==
    [][(PmtuCalled({"update_pmtu_next_lower"})
          /\ NoUsablePlateau(pmtu_ret'.version, pmtu_ret'.arg))
        => /\ pmtu_ret'.result = "Err"
           /\ pmtu_ret'.prior = get_pmtu(pmtu_cache[pmtu_ret'.version], pmtu_ret'.key)
           /\ UNCHANGED <<pmtu_cache, timer_scheduled, pmtu_timers, timers>>]_vars

\* C38 witness: update_pmtu_next_lower from 1280 on an IPv6 path holding 1280
\* (the plateau below, 1006, is under the IPv6 minimum) has returned
\* Err(Some(1280)) and the entry is as it was.
C38_Witness ==
    /\ pmtu_ret.op = "update_pmtu_next_lower"
    /\ pmtu_ret.version = "v6"
    /\ pmtu_ret.arg = IPV6_MIN_MTU
    /\ pmtu_ret.result = "Err"
    /\ pmtu_ret.prior = Some(IPV6_MIN_MTU)
    /\ IsSome(pmtu_ret.before)
    /\ PmtuEntryOf(pmtu_cache, pmtu_ret) = pmtu_ret.before
    /\ pmtu_ret.before.val.last_updated < now

\* C39: reassemble_packet on a complete IPv4 entry whose header and bodies
\* together exceed 65535 bytes returns PacketParsingError and no packet, and
\* the entry and its timer are removed.
C39_OversizeIsParsingError ==
    (/\ ret.op = "reassemble_packet"
     /\ ret.version = "v4"
     /\ IsSome(ret.before)
     /\ ret.before.val.missing_blocks = {}
     /\ IPV4_HEADER_LEN + SumLen(StoredFragments(ret.before.val)) > U16_MAX)
        => /\ ret.outcome = "PacketParsingError"
           /\ IsNone(ret.packet)
           /\ panic = "none"
           /\ IsNone(EntryOf(ret.version, ret.key))
           /\ IsNone(TimerOf(ret.version, ret.key))

\* C39 witness: fragments covering blocks 0 to 8191 (65512 and 24 bytes) have
\* been reassembled into PacketParsingError, and the entry is gone.
C39_Witness ==
    /\ ret.op = "reassemble_packet"
    /\ IsSome(ret.before)
    /\ ret.before.val.missing_blocks = {}
    /\ ret.before.val.total_size > U16_MAX
    /\ \E g \in StoredFragments(ret.before.val) : LastBlock(g) = MAX_FRAGMENT_BLOCKS
    /\ ret.outcome = "PacketParsingError"
    /\ IsNone(EntryOf(ret.version, ret.key))
    /\ IsNone(TimerOf(ret.version, ret.key))

---------------------------------------------------------------------------
(* next_lower_pmtu_plateau on its own *)

\* The values next_lower_pmtu_plateau is applied to: every plateau and the
\* values up to two below and above it, and 0
PlateauInputs ==
    { PMTU_PLATEAUS[i] + d : i \in 1..Len(PMTU_PLATEAUS), d \in {-2, -1, 0, 1, 2} } \cup {0}

\* A start_mtu has been chosen and nothing has run.
InitPlateau ==
    /\ cache = [v \in Versions |-> [k \in Keys(v) |-> None]]
    /\ timers = [id \in TimerIds |-> None]
    /\ now = 0
    /\ panic = "none"
    /\ ret = Idle
    /\ accepted = [v \in Versions |-> [k \in Keys(v) |-> {}]]
    /\ pmtu_cache = [v \in Versions |-> NewPathMtuCache(v)]
    /\ timer_scheduled = [v \in Versions |-> FALSE]
    /\ pmtu_timers = [v \in Versions |-> None]
    /\ \E start_mtu \in PlateauInputs : pmtu_ret = [PmtuIdle EXCEPT !.arg = start_mtu]
    /\ if_less_stored = [v \in Versions |-> [key \in Paths(v) |-> None]]

\* next_lower_pmtu_plateau(start_mtu) is called and returns.
NextLowerPmtuPlateau ==
    /\ pmtu_ret.op = "idle"
    /\ pmtu_ret' = [pmtu_ret EXCEPT !.op = "next_lower_pmtu_plateau",
                                    !.next = next_lower_pmtu_plateau(pmtu_ret.arg)]
    /\ UNCHANGED <<cache, timers, now, panic, ret, accepted, pmtu_cache, timer_scheduled,
                   pmtu_timers, if_less_stored>>

SpecPlateau == InitPlateau /\ [][NextLowerPmtuPlateau]_vars

\* The greatest element of a non-empty set of numbers
Greatest(S) == CHOOSE p \in S : \A q \in S : q <= p

\* C40: next_lower_pmtu_plateau(x) returns the greatest plateau strictly less
\* than x, None exactly when x <= 68, and for x equal to a plateau the next
\* smaller plateau, not x itself.
C40_GreatestPlateauBelow ==
    pmtu_ret.op = "next_lower_pmtu_plateau" =>
        LET x == pmtu_ret.arg
            below == { p \in PlateauSet : p < x }
        IN /\ pmtu_ret.next = IF below = {} THEN None ELSE Some(Greatest(below))
           /\ IsNone(pmtu_ret.next) <=> x <= 68
           /\ x \in PlateauSet => pmtu_ret.next # Some(x)
           /\ (x \in PlateauSet /\ x > 68) =>
                 /\ pmtu_ret.next.val \in PlateauSet
                 /\ ~\E p \in PlateauSet : pmtu_ret.next.val < p /\ p < x

\* C40 witness: applied to the plateau 1280 the function has returned the
\* next smaller plateau, 1006.
C40_Witness ==
    /\ pmtu_ret.op = "next_lower_pmtu_plateau"
    /\ pmtu_ret.arg = 1280
    /\ pmtu_ret.next = Some(1006)

====
